---- MODULE Spec2Model ----
(***************************************************************************)
(* Facet deposit derivation and the FCT mint controller of kona:           *)
(*   crates/protocol/protocol/src/fct_mint.rs   (FctMintCalculator)        *)
(*   crates/protocol/protocol/src/facet.rs      (payload codec, aliasing)  *)
(*   crates/protocol/derive/src/helpers/facet_deposits.rs (derivation)     *)
(*                                                                         *)
(* u128 / u64 quantities exceed the integers of the model checker, so they *)
(* are carried as exact natural numbers in base 1000: a number is the      *)
(* little-endian sequence of its limbs without high zero limbs (0 is <<>>).*)
(* Literals are written with the digit grouping of the Rust source, most   *)
(* significant group first: Nat3(<<800, 0, 0, 0, 0>>) is                   *)
(* 800_000_000_000_000.                                                    *)
(***************************************************************************)
EXTENDS Integers, Sequences, FiniteSets, TLC

----------------------------------------------------------------------------
(* Exact natural-number arithmetic                                         *)

Base == 1000

\* `let x = e; ...`: the value e is bound to the parameter of Body
Bind(e, Body(_)) == Body(e)

\* the i-th limb of s, 0 beyond its length
Limb(s, i) == IF i \in 1..Len(s) THEN s[i] ELSE 0

\* drop high zero limbs
Norm(s) ==
    LET nz == {i \in 1..Len(s) : s[i] # 0}
    IN  IF nz = {} THEN <<>>
        ELSE SubSeq(s, 1, CHOOSE i \in nz : \A j \in nz : j <= i)

Rev(s) == [i \in 1..Len(s) |-> s[Len(s) + 1 - i]]

Nat3(groups) == Norm(Rev(groups))

\* a machine-sized natural number as limbs (below Base^4)
OfInt(n) ==
    Norm(<<n % Base, (n \div Base) % Base, (n \div (Base * Base)) % Base,
           n \div (Base * Base * Base)>>)

Zero == <<>>
One  == <<1>>
Two  == <<2>>

LenMax(a, b) == IF Len(a) < Len(b) THEN Len(b) ELSE Len(a)

\* a + b: the carry into limb i is 1 iff some lower limb generates a carry
\* and every limb in between propagates it
Add(a, b) ==
    LET n    == LenMax(a, b)
        s(i) == Limb(a, i) + Limb(b, i)
        c(i) == IF \E j \in 1..(i - 1) :
                     /\ s(j) >= Base
                     /\ \A k \in (j + 1)..(i - 1) : s(k) = Base - 1
                THEN 1 ELSE 0
    IN  Norm([i \in 1..(n + 1) |-> (s(i) + c(i)) % Base])

\* a < b
Lt(a, b) ==
    IF Len(a) # Len(b) THEN Len(a) < Len(b)
    ELSE \E i \in 1..Len(a) :
             /\ a[i] < b[i]
             /\ \A j \in (i + 1)..Len(a) : a[j] = b[j]

Le(a, b) == ~Lt(b, a)

Min(a, b) == IF Lt(b, a) THEN b ELSE a
Max(a, b) == IF Lt(a, b) THEN b ELSE a

\* a - b for a >= b: the borrow into limb i is 1 iff some lower limb
\* underflows and every limb in between is zero
Sub(a, b) ==
    LET d(i) == Limb(a, i) - Limb(b, i)
        w(i) == IF \E j \in 1..(i - 1) :
                     /\ d(j) < 0
                     /\ \A k \in (j + 1)..(i - 1) : d(k) = 0
                THEN 1 ELSE 0
    IN  Norm([i \in 1..Len(a) |-> (d(i) - w(i) + Base) % Base])

\* a * k for 0 <= k < Base
MulLimb(a, k) ==
    Add([i \in 1..Len(a) |-> (a[i] * k) % Base],
        [i \in 1..(Len(a) + 1) |-> IF i = 1 THEN 0 ELSE (a[i - 1] * k) \div Base])

\* a * Base
ShiftLimb(a) == IF a = <<>> THEN <<>> ELSE <<0>> \o a

\* a * b, one partial product per limb of a
RECURSIVE MulRec(_, _)
MulRec(a, b) ==
    IF a = <<>> \/ b = <<>> THEN <<>>
    ELSE Add(MulLimb(b, Head(a)), ShiftLimb(MulRec(Tail(a), b)))

Mul(a, b) == IF Len(a) <= Len(b) THEN MulRec(a, b) ELSE MulRec(b, a)

\* floor(r / b) for r < b * Base and top limb of b at least Base \div 2:
\* the estimate from the leading limbs is at most 2 too large (Knuth 4.3.1 D)
QDigit(r, b) ==
    LET n    == Len(b)
        top  == Limb(r, n + 1) * Base + Limb(r, n)
        est  == IF top \div b[n] > Base - 1 THEN Base - 1 ELSE top \div b[n]
    IN  Bind({d \in {est, est - 1, est - 2} : d >= 0 /\ Le(MulLimb(b, d), r)},
             LAMBDA fits : CHOOSE d \in fits : \A e \in fits : e <= d)

\* schoolbook division: limbs i, i-1, .. 1 of a are still to be brought down,
\* q is the quotient and r the remainder of the limbs above them (r < b)
RECURSIVE LongDiv(_, _, _, _, _)
LongDiv(a, b, i, q, r) ==
    IF i = 0 \/ ~Lt(r, b) THEN q
    ELSE Bind(Norm(<<a[i]>> \o r), LAMBDA r1 :
         Bind(QDigit(r1, b), LAMBDA d :
         LongDiv(a, b, i - 1, Norm(<<d>> \o q), Sub(r1, MulLimb(b, d)))))

\* floor(a / b) for b > 0; both are scaled so that the divisor is normalized
Div(a, b) ==
    IF Lt(a, b) THEN <<>>
    ELSE Bind(Base \div (b[Len(b)] + 1), LAMBDA f :
         Bind(MulLimb(a, f), LAMBDA af :
         LongDiv(af, MulLimb(b, f), Len(af), <<>>, <<>>)))

\* a mod b for b > 0
Mod(a, b) == Sub(a, Mul(Div(a, b), b))

\* 2^k by squaring
RECURSIVE Pow2(_)
Pow2(k) ==
    IF k < 9 THEN <<2 ^ k>>
    ELSE Bind(Pow2(k \div 2), LAMBDA h :
         Bind(Mul(h, h), LAMBDA sq :
         IF k % 2 = 0 THEN sq ELSE Add(sq, sq)))

\* 2^64 and 2^128: the widths of u64 and u128
TwoTo64  == Nat3(<<18, 446, 744, 73, 709, 551, 616>>)
TwoTo128 == Nat3(<<340, 282, 366, 920, 938, 463, 463, 374, 607, 431, 768, 211, 456>>)
U128_MAX == Sub(TwoTo128, One)

\* The outcome of a panic (a failed assertion, or an arithmetic overflow in a
\* debug build): no value is returned.
Panic == <<-1>>

\* a + b, a * b in u128 and u64: on overflow a debug build (overflow checks on)
\* panics and a release build wraps modulo 2^128 (2^64).
AddU128(debug_build, a, b) ==
    Bind(Add(a, b), LAMBDA s :
        IF Lt(s, TwoTo128) THEN s
        ELSE IF debug_build THEN Panic ELSE Sub(s, TwoTo128))

MulU128(debug_build, a, b) ==
    Bind(Mul(a, b), LAMBDA p :
        IF Lt(p, TwoTo128) THEN p
        ELSE IF debug_build THEN Panic ELSE Mod(p, TwoTo128))

AddU64(debug_build, a, b) ==
    Bind(Add(a, b), LAMBDA s :
        IF Lt(s, TwoTo64) THEN s
        ELSE IF debug_build THEN Panic ELSE Sub(s, TwoTo64))

----------------------------------------------------------------------------
(* FctMintCalculator (fct_mint.rs)                                         *)

ADJUSTMENT_PERIOD == 10000
SECONDS_PER_YEAR == 31556952
HALVING_PERIOD_IN_SECONDS == 1 * SECONDS_PER_YEAR
L2_BLOCK_TIME == 12
RAW_HALVING_PERIOD_IN_BLOCKS == HALVING_PERIOD_IN_SECONDS \div L2_BLOCK_TIME
ADJUSTMENT_PERIODS_PER_HALVING == RAW_HALVING_PERIOD_IN_BLOCKS \div ADJUSTMENT_PERIOD
HALVING_PERIOD_IN_BLOCKS == ADJUSTMENT_PERIOD * ADJUSTMENT_PERIODS_PER_HALVING

TARGET_FCT_MINT_PER_L1_BLOCK == Nat3(<<40, 0, 0, 0, 0, 0, 0>>)
TARGET_MINT_PER_PERIOD == Mul(TARGET_FCT_MINT_PER_L1_BLOCK, OfInt(ADJUSTMENT_PERIOD))
MAX_ADJUSTMENT_FACTOR == Two
INITIAL_RATE == Nat3(<<800, 0, 0, 0, 0>>)
MAX_RATE == Nat3(<<10, 0, 0, 0, 0, 0>>)
MIN_RATE == One

halving_periods_passed(current_l2_block) ==
    current_l2_block \div HALVING_PERIOD_IN_BLOCKS

\* 2_u128.pow(periods): overflows u128 from 128 periods on
halving_factor(debug_build, l2_block_number) ==
    LET periods == halving_periods_passed(l2_block_number)
    IN  IF periods < 128 THEN Pow2(periods)
        ELSE IF debug_build THEN Panic ELSE Zero

\* mutant: the period is taken to start one block late
is_first_block_in_period_late(l2_block_number) ==
    l2_block_number % ADJUSTMENT_PERIOD = 1

is_first_block_in_period(l2_block_number) ==
    l2_block_number % ADJUSTMENT_PERIOD = 0

halving_adjusted_target(debug_build, l2_block_number) ==
    Bind(halving_factor(debug_build, l2_block_number), LAMBDA factor :
        IF factor = Panic THEN Panic
        ELSE IF factor = Zero THEN Zero
        ELSE Div(TARGET_MINT_PER_PERIOD, factor))

\* Ord::clamp asserts min <= max in every build
clamp(x, lo, hi) ==
    IF Lt(hi, lo) THEN Panic
    ELSE IF Lt(x, lo) THEN lo
    ELSE IF Lt(hi, x) THEN hi
    ELSE x

\* mutant: the rate is recomputed at every block
compute_new_rate_every_block(debug_build, l2_block_number, prev_rate, cumulative_l1_data_gas) ==
    LET limited(new_rate) ==
            Bind(MulU128(debug_build, prev_rate, MAX_ADJUSTMENT_FACTOR), LAMBDA doubled :
                IF doubled = Panic THEN Panic
                ELSE LET max_allowed_rate == Min(doubled, MAX_RATE)
                         min_allowed_rate == Max(Div(prev_rate, MAX_ADJUSTMENT_FACTOR), MIN_RATE)
                     IN  clamp(new_rate, min_allowed_rate, max_allowed_rate))
    IN  IF cumulative_l1_data_gas = Zero THEN limited(MAX_RATE)
        ELSE Bind(halving_adjusted_target(debug_build, l2_block_number), LAMBDA target :
                 IF target = Panic THEN Panic
                 ELSE IF target = Zero THEN Zero
                 ELSE limited(Div(target, cumulative_l1_data_gas)))

\* the early `return 0` leaves before the clamp; the product prev_rate *
\* MAX_ADJUSTMENT_FACTOR is computed after it
compute_new_rate(debug_build, l2_block_number, prev_rate, cumulative_l1_data_gas) ==
    IF is_first_block_in_period(l2_block_number)
    THEN LET limited(new_rate) ==
                 Bind(MulU128(debug_build, prev_rate, MAX_ADJUSTMENT_FACTOR), LAMBDA doubled :
                     IF doubled = Panic THEN Panic
                     ELSE LET max_allowed_rate == Min(doubled, MAX_RATE)
                              min_allowed_rate == Max(Div(prev_rate, MAX_ADJUSTMENT_FACTOR), MIN_RATE)
                          IN  clamp(new_rate, min_allowed_rate, max_allowed_rate))
         IN  IF cumulative_l1_data_gas = Zero THEN limited(MAX_RATE)
             ELSE Bind(halving_adjusted_target(debug_build, l2_block_number), LAMBDA target :
                      IF target = Panic THEN Panic
                      ELSE IF target = Zero THEN Zero
                      ELSE limited(Div(target, cumulative_l1_data_gas)))
    ELSE prev_rate

\* (l1_data_gas_used as u128).saturating_mul(mint_rate)
calculate_mint_amount_wrapping(l1_data_gas_used, mint_rate) ==
    Mod(Mul(OfInt(l1_data_gas_used), mint_rate), TwoTo128)
calculate_mint_amount(l1_data_gas_used, mint_rate) ==
    Bind(Mul(OfInt(l1_data_gas_used), mint_rate), LAMBDA p :
        IF Lt(p, TwoTo128) THEN p ELSE U128_MAX)

\* zero bytes cost 4, the others 16; 8 per byte when a contract emitted them
calculate_data_gas_used_flat(input_data, contract_initiated) ==
    IF contract_initiated THEN Len(input_data) * 8 ELSE Len(input_data) * 16
calculate_data_gas_used(input_data, contract_initiated) ==
    IF contract_initiated THEN Len(input_data) * 8
    ELSE LET zero_count     == Cardinality({i \in 1..Len(input_data) : input_data[i] = 0})
             non_zero_count == Len(input_data) - zero_count
         IN  zero_count * 4 + non_zero_count * 16

----------------------------------------------------------------------------
(* Facet payload codec and address aliasing (facet.rs)                     *)

None == <<>>
Some(v) == <<v>>

FACET_TX_TYPE == 70
DEPOSIT_TX_TYPE == 126

Rep(b, n) == [i \in 1..n |-> b]

\* 0x1111000000000000000000000000000000001111
ALIAS_OFFSET == <<17, 17>> \o Rep(0, 16) \o <<17, 17>>

\* (addr + ALIAS_OFFSET) % 2^160 on the 20 big-endian bytes of the address:
\* byte i receives a carry iff a less significant byte overflows and every
\* byte in between is 0xff after the addition
alias_l1_to_l2_saturating(addr) ==
    LET s(i) == addr[i] + ALIAS_OFFSET[i]
        c(i) == IF \E j \in (i + 1)..20 :
                     /\ s(j) >= 256
                     /\ \A k \in (i + 1)..(j - 1) : s(k) = 255
                THEN 1 ELSE 0
    IN  IF s(1) + c(1) >= 256 THEN Rep(255, 20)
        ELSE SubSeq([i \in 1..20 |-> (s(i) + c(i)) % 256], 1, 20)
alias_l1_to_l2(addr) ==
    LET s(i) == addr[i] + ALIAS_OFFSET[i]
        c(i) == IF \E j \in (i + 1)..20 :
                     /\ s(j) >= 256
                     /\ \A k \in (i + 1)..(j - 1) : s(k) = 255
                THEN 1 ELSE 0
    IN  SubSeq([i \in 1..20 |-> (s(i) + c(i)) % 256], 1, 20)

\* the bytes of buf after its first n bytes
Advance(buf, n) == SubSeq(buf, n + 1, Len(buf))

\* a big-endian length of at most 3 bytes; longer ones exceed every buffer
BELen(bs) ==
    IF Len(bs) = 1 THEN bs[1]
    ELSE IF Len(bs) = 2 THEN bs[1] * 256 + bs[2]
    ELSE IF Len(bs) = 3 THEN (bs[1] * 256 + bs[2]) * 256 + bs[3]
    ELSE 16777216

\* alloy_rlp::Header::decode: the header of the next RLP item of buf
Header_decode(buf) ==
    IF buf = <<>> THEN [ok |-> FALSE]
    ELSE LET b == buf[1] IN
      IF b < 128 THEN [ok |-> TRUE, list |-> FALSE, payload_length |-> 1, rest |-> buf]
      ELSE IF b <= 183 THEN
        LET n == b - 128 IN
          IF n = 1 /\ Len(buf) < 2 THEN [ok |-> FALSE]
          ELSE IF n = 1 /\ buf[2] < 128 THEN [ok |-> FALSE]
          ELSE IF Len(buf) - 1 < n THEN [ok |-> FALSE]
          ELSE [ok |-> TRUE, list |-> FALSE, payload_length |-> n, rest |-> Advance(buf, 1)]
      ELSE IF b <= 191 \/ b >= 248 THEN
        LET len_of_len == IF b >= 248 THEN b - 247 ELSE b - 183
            len        == SubSeq(buf, 2, 1 + len_of_len)
            n          == BELen(len)
        IN  IF Len(buf) - 1 < len_of_len THEN [ok |-> FALSE]
            ELSE IF len[1] = 0 THEN [ok |-> FALSE]
            ELSE IF n < 56 THEN [ok |-> FALSE]
            ELSE IF Len(buf) - 1 - len_of_len < n THEN [ok |-> FALSE]
            ELSE [ok |-> TRUE, list |-> b >= 248, payload_length |-> n,
                  rest |-> Advance(buf, 1 + len_of_len)]
      ELSE
        LET n == b - 192 IN
          IF Len(buf) - 1 < n THEN [ok |-> FALSE]
          ELSE [ok |-> TRUE, list |-> TRUE, payload_length |-> n, rest |-> Advance(buf, 1)]

\* alloy_rlp::Header::decode_bytes(buf, false): the next item as a byte string
decode_bytes(buf) ==
    Bind(Header_decode(buf), LAMBDA h :
        IF ~h.ok THEN [ok |-> FALSE]
        ELSE IF h.list THEN [ok |-> FALSE]
        ELSE [ok |-> TRUE, val |-> SubSeq(h.rest, 1, h.payload_length),
              rest |-> Advance(h.rest, h.payload_length)])

\* an unsigned integer of at most width bytes: no leading zero byte. The value
\* is kept as its minimal big-endian bytes (<<>> is 0).
decode_uint(buf, width) ==
    Bind(decode_bytes(buf), LAMBDA d :
        IF ~d.ok THEN [ok |-> FALSE]
        ELSE IF Len(d.val) > width THEN [ok |-> FALSE]
        ELSE IF d.val # <<>> /\ d.val[1] = 0 THEN [ok |-> FALSE]
        ELSE d)

\* the minimal big-endian bytes of a machine-sized natural number
BEBytes(n) ==
    LET bs == <<n \div 16777216, (n \div 65536) % 256, (n \div 256) % 256, n % 256>>
        nz == {i \in 1..4 : bs[i] # 0}
    IN  IF nz = {} THEN <<>>
        ELSE SubSeq(bs, CHOOSE i \in nz : \A j \in nz : i <= j, 4)

\* #[derive(RlpDecodable)] FacetPayloadRlp: a list of
\* [chain_id: u64, to: Bytes, value: U256, gas_limit: u64, data: Bytes, mine_boost: Bytes]
\* whose items fill the list payload exactly
FacetPayloadRlp_decode(buf) ==
    Bind(Header_decode(buf), LAMBDA h :
    IF ~h.ok THEN [ok |-> FALSE]
    ELSE IF ~h.list THEN [ok |-> FALSE]
    ELSE Bind(decode_uint(h.rest, 8), LAMBDA chain_id :
    IF ~chain_id.ok THEN [ok |-> FALSE]
    ELSE Bind(decode_bytes(chain_id.rest), LAMBDA to :
    IF ~to.ok THEN [ok |-> FALSE]
    ELSE Bind(decode_uint(to.rest, 32), LAMBDA value :
    IF ~value.ok THEN [ok |-> FALSE]
    ELSE Bind(decode_uint(value.rest, 8), LAMBDA gas_limit :
    IF ~gas_limit.ok THEN [ok |-> FALSE]
    ELSE Bind(decode_bytes(gas_limit.rest), LAMBDA data :
    IF ~data.ok THEN [ok |-> FALSE]
    ELSE Bind(decode_bytes(data.rest), LAMBDA mine_boost :
    IF ~mine_boost.ok THEN [ok |-> FALSE]
    ELSE IF Len(h.rest) - Len(mine_boost.rest) # h.payload_length THEN [ok |-> FALSE]
    ELSE [ok |-> TRUE, chain_id |-> chain_id.val, to |-> to.val, value |-> value.val,
          gas_limit |-> gas_limit.val, data |-> data.val,
          mine_boost |-> mine_boost.val])))))))

\* mutant: the chain id of the payload is not compared
decode_facet_payload_any_chain(bytes, l2_chain_id, contract_initiated) ==
    IF bytes = <<>> THEN [ok |-> FALSE, err |-> "Short"]
    ELSE IF bytes[1] # FACET_TX_TYPE THEN [ok |-> FALSE, err |-> "WrongPrefix"]
    ELSE Bind(FacetPayloadRlp_decode(Advance(bytes, 1)), LAMBDA rlp_payload :
      IF ~rlp_payload.ok THEN [ok |-> FALSE, err |-> "Rlp"]
      ELSE IF rlp_payload.to # <<>> /\ Len(rlp_payload.to) # 20
        THEN [ok |-> FALSE, err |-> "Rlp"]
      ELSE [ok |-> TRUE,
            payload |-> [to |-> IF rlp_payload.to = <<>> THEN None ELSE Some(rlp_payload.to),
                         value |-> rlp_payload.value,
                         gas_limit |-> rlp_payload.gas_limit,
                         data |-> rlp_payload.data,
                         l1_data_gas_used |->
                             calculate_data_gas_used(bytes, contract_initiated),
                         mint |-> Zero]])

decode_facet_payload(bytes, l2_chain_id, contract_initiated) ==
    IF bytes = <<>> THEN [ok |-> FALSE, err |-> "Short"]
    ELSE IF bytes[1] # FACET_TX_TYPE THEN [ok |-> FALSE, err |-> "WrongPrefix"]
    ELSE Bind(FacetPayloadRlp_decode(Advance(bytes, 1)), LAMBDA rlp_payload :
      IF ~rlp_payload.ok THEN [ok |-> FALSE, err |-> "Rlp"]
      ELSE IF rlp_payload.chain_id # BEBytes(l2_chain_id)
        THEN [ok |-> FALSE, err |-> "BadChainId"]
      ELSE IF rlp_payload.to # <<>> /\ Len(rlp_payload.to) # 20
        THEN [ok |-> FALSE, err |-> "Rlp"]
      ELSE [ok |-> TRUE,
            payload |-> [to |-> IF rlp_payload.to = <<>> THEN None ELSE Some(rlp_payload.to),
                         value |-> rlp_payload.value,
                         gas_limit |-> rlp_payload.gas_limit,
                         data |-> rlp_payload.data,
                         l1_data_gas_used |->
                             calculate_data_gas_used(bytes, contract_initiated),
                         mint |-> Zero]])

\* FacetPayload::into_deposit
into_deposit(payload, from, source_hash) ==
    [from |-> from,
     to |-> payload.to,
     value |-> payload.value,
     gas_limit |-> payload.gas_limit,
     input |-> payload.data,
     mint |-> Some(payload.mint),
     is_system_transaction |-> FALSE,
     source_hash |-> source_hash]

set_mint(payload, mint) == [payload EXCEPT !.mint = mint]

----------------------------------------------------------------------------
(* Deposit derivation (facet_deposits.rs)                                  *)

\* kona_protocol constants imported at facet_deposits.rs:5; the specification
\* has them as a fixed 20-byte address and a fixed 32-byte topic-0, and the
\* derivation only compares against them
FACET_INBOX_ADDRESS == Rep(0, 17) \o <<15, 172, 231>>
FACET_LOG_INBOX_EVENT_SIG == Rep(0, 29) \o <<15, 172, 231>>

B256_ZERO == 0
ADDRESS_ZERO == Rep(0, 20)

\* the envelope variants the derivation reads; any other variant of TxEnvelope
\* (Eip7702) takes the wildcard arms
ReadVariants == {"Legacy", "Eip2930", "Eip1559", "Eip4844"}

tx_hash_of(tx) == IF tx.variant \in ReadVariants THEN tx.hash ELSE B256_ZERO
\* mutant: the destination is never read
maybe_to_of_none(tx) == None
maybe_to_of(tx) == IF tx.variant \in ReadVariants THEN tx.to ELSE None
input_of(tx) == IF tx.variant \in ReadVariants THEN tx.input ELSE <<>>

\* tx.recover_signer().unwrap_or_default()
recover_signer_or_default_aliased(tx) ==
    alias_l1_to_l2(IF tx.signer = None THEN ADDRESS_ZERO ELSE tx.signer[1])
recover_signer_or_default(tx) ==
    IF tx.signer = None THEN ADDRESS_ZERO ELSE tx.signer[1]

\* mutant: the last matching log is taken
first_log_of_last(receipt) ==
    LET hits == {i \in 1..Len(receipt.logs) :
                    /\ receipt.logs[i].topics # <<>>
                    /\ receipt.logs[i].topics[1] = FACET_LOG_INBOX_EVENT_SIG}
    IN  IF hits = {} THEN None
        ELSE Some(receipt.logs[CHOOSE i \in hits : \A j \in hits : j <= i])

\* the first log of the receipt whose first topic is the inbox event signature
first_log_of(receipt) ==
    LET hits == {i \in 1..Len(receipt.logs) :
                    /\ receipt.logs[i].topics # <<>>
                    /\ receipt.logs[i].topics[1] = FACET_LOG_INBOX_EVENT_SIG}
    IN  IF hits = {} THEN None
        ELSE Some(receipt.logs[CHOOSE i \in hits : \A j \in hits : i <= j])

\* mutant: the receipt status is not looked at
collect_any_status(tx, receipt, l2_chain_id) ==
    IF maybe_to_of(tx) = Some(FACET_INBOX_ADDRESS) /\ input_of(tx) # <<>>
    THEN Bind(decode_facet_payload(input_of(tx), l2_chain_id, FALSE), LAMBDA d :
             IF d.ok
             THEN <<[payload |-> d.payload, from |-> recover_signer_or_default(tx),
                     tx_hash |-> tx_hash_of(tx)]>>
             ELSE <<>>)
    ELSE Bind(first_log_of(receipt), LAMBDA first_log :
             IF first_log = None THEN <<>>
             ELSE Bind(decode_facet_payload(first_log[1].data, l2_chain_id, TRUE), LAMBDA d :
                  IF d.ok
                  THEN <<[payload |-> d.payload,
                          from |-> alias_l1_to_l2(first_log[1].address),
                          tx_hash |-> tx_hash_of(tx)]>>
                  ELSE <<>>))

\* one iteration of the loop of step 1: the entries (payload, from, tx_hash)
\* this (tx, receipt) pair appends to facet_payloads
collect(tx, receipt, l2_chain_id) ==
    IF receipt.status # "Eip658_true" THEN <<>>
    ELSE IF maybe_to_of(tx) = Some(FACET_INBOX_ADDRESS) /\ input_of(tx) # <<>>
    THEN Bind(decode_facet_payload(input_of(tx), l2_chain_id, FALSE), LAMBDA d :
             IF d.ok
             THEN <<[payload |-> d.payload, from |-> recover_signer_or_default(tx),
                     tx_hash |-> tx_hash_of(tx)]>>
             ELSE <<>>)
    ELSE Bind(first_log_of(receipt), LAMBDA first_log :
             IF first_log = None THEN <<>>
             ELSE Bind(decode_facet_payload(first_log[1].data, l2_chain_id, TRUE), LAMBDA d :
                  IF d.ok
                  THEN <<[payload |-> d.payload,
                          from |-> alias_l1_to_l2(first_log[1].address),
                          tx_hash |-> tx_hash_of(tx)]>>
                  ELSE <<>>))

\* mutant: the entries are put in front of the earlier ones
RECURSIVE collect_from_reversed(_, _, _, _)
collect_from_reversed(txs, receipts, l2_chain_id, i) ==
    IF i > Len(txs) \/ i > Len(receipts) THEN <<>>
    ELSE collect_from_reversed(txs, receipts, l2_chain_id, i + 1)
         \o collect(txs[i], receipts[i], l2_chain_id)

\* step 1 over txs.iter().zip(receipts), from pair i on
RECURSIVE collect_from(_, _, _, _)
collect_from(txs, receipts, l2_chain_id, i) ==
    IF i > Len(txs) \/ i > Len(receipts) THEN <<>>
    ELSE collect(txs[i], receipts[i], l2_chain_id)
         \o collect_from(txs, receipts, l2_chain_id, i + 1)

\* mutant: the sum stops after one payload
sum_u64_one(debug_build, facet_payloads, i) ==
    IF i > Len(facet_payloads) THEN Zero
    ELSE OfInt(facet_payloads[i].payload.l1_data_gas_used)

\* facet_payloads.iter().map(l1_data_gas_used).sum() in u64, from entry i on
RECURSIVE sum_u64(_, _, _)
sum_u64(debug_build, facet_payloads, i) ==
    IF i > Len(facet_payloads) THEN Zero
    ELSE Bind(sum_u64(debug_build, facet_payloads, i + 1), LAMBDA rest :
             IF rest = Panic THEN Panic
             ELSE AddU64(debug_build, OfInt(facet_payloads[i].payload.l1_data_gas_used), rest))

PanicResult ==
    [status |-> "panic", deposits |-> <<>>, new_mint_rate |-> Zero,
     new_cumulative_l1_data_gas |-> Zero]

derive_facet_deposits(debug_build, txs, receipts, l2_chain_id, l2_block_number, fct_mint_rate, fct_mint_period_l1_data_gas) ==
    IF debug_build /\ Len(txs) # Len(receipts) THEN PanicResult
    ELSE
    Bind(collect_from(txs, receipts, l2_chain_id, 1), LAMBDA facet_payloads :
    Bind(compute_new_rate(debug_build, l2_block_number, fct_mint_rate,
                          fct_mint_period_l1_data_gas), LAMBDA new_mint_rate :
    IF new_mint_rate = Panic THEN PanicResult
    ELSE
    Bind([i \in 1..Len(facet_payloads) |->
            [facet_payloads[i] EXCEPT !.payload =
               set_mint(@, calculate_mint_amount(@.l1_data_gas_used, new_mint_rate))]],
         LAMBDA minted :
    Bind(sum_u64(debug_build, facet_payloads, 1), LAMBDA batch_l1_data_gas :
    IF batch_l1_data_gas = Panic THEN PanicResult
    ELSE
    Bind(IF is_first_block_in_period(l2_block_number) THEN batch_l1_data_gas
         ELSE AddU128(debug_build, fct_mint_period_l1_data_gas, batch_l1_data_gas),
         LAMBDA new_cumulative_l1_data_gas :
    IF new_cumulative_l1_data_gas = Panic THEN PanicResult
    ELSE [status |-> "ok",
          deposits |-> <<>> \o [i \in 1..Len(minted) |->
                          into_deposit(minted[i].payload, minted[i].from, minted[i].tx_hash)],
          new_mint_rate |-> new_mint_rate,
          new_cumulative_l1_data_gas |-> new_cumulative_l1_data_gas])))))

----------------------------------------------------------------------------
(* Inputs                                                                  *)

\* bounds of the model
MaxTxs == 2
MaxCalls == 2

\* the L2 chain id of the tests
L2_CHAIN_ID == 16436858

\* 46e283face7a94111111111111111111111111111111111111111180830f424082123480
KnownPayload ==
    <<70, 226, 131, 250, 206, 122, 148>> \o Rep(17, 20)
    \o <<128, 131, 15, 66, 64, 130, 18, 52, 128>>
\* a contract creation with value 1, zero bytes in data and in mine_boost
CreatePayload ==
    <<70, 208, 131, 250, 206, 122, 128, 1, 130, 82, 8, 131, 0, 0, 171, 130, 0, 0>>
\* 0xdeadbeef
DeadBeef == <<222, 173, 190, 239>>

\* #[derive(RlpEncodable)] FacetPayloadRlp, for items and lists of at most 55
\* bytes: a byte string, and the list of the six fields after the 0x46 prefix.
\* value is 0; gas_limit is given already encoded, so that it can be malformed
RlpBytes(bs) == IF Len(bs) = 1 /\ bs[1] < 128 THEN bs ELSE <<128 + Len(bs)>> \o bs
RlpList(items) == <<192 + Len(items)>> \o items
MakePayload(f) ==
    <<FACET_TX_TYPE>>
    \o RlpList(RlpBytes(f.chain_id) \o RlpBytes(f.to) \o <<128>> \o f.gas_limit
               \o RlpBytes(f.data) \o RlpBytes(f.mine_boost))

\* gas_limit 1_000_000, and a gas_limit with a leading zero byte
GasLimitItem == <<131, 15, 66, 64>>
BadGasLimitItem == <<130, 0, 1>>

\* payload fields: the expected chain id or its successor, a `to` of 0, 1, 19,
\* 20, 21 or 32 bytes, a well-formed or malformed gas_limit, with and without
\* mine_boost padding
ToLengths == {0, 1, 19, 20, 21, 32}
PayloadFields(chain_id, to_length, gas_limit, mine_boost) ==
    [chain_id |-> BEBytes(chain_id), to |-> Rep(17, to_length), gas_limit |-> gas_limit,
     data |-> <<18, 52>>, mine_boost |-> mine_boost]

Signer == Rep(170, 20)
DummyContract == Rep(34, 20)
\* 0xdb8dc4ac38c094746529a14be18d99c18ecaedac
Emitter ==
    <<219, 141, 196, 172, 56, 192, 148, 116, 101, 41, 161, 75, 225, 141, 153, 193,
      142, 202, 237, 172>>
\* an emitter whose alias wraps around 2^160
HighEmitter == Rep(255, 20)
OtherTopic == Rep(1, 32)

Tx(variant, to, input, signer, hash) ==
    [variant |-> variant, to |-> to, input |-> input, signer |-> signer, hash |-> hash]
Log(address, topics, data) == [address |-> address, topics |-> topics, data |-> data]
Receipt(status, logs) == [status |-> status, logs |-> logs]

InboxKnownTx  == Tx("Legacy", Some(FACET_INBOX_ADDRESS), KnownPayload, Some(Signer), 1)
InboxDeadTx   == Tx("Eip1559", Some(FACET_INBOX_ADDRESS), DeadBeef, Some(Signer), 2)
DummyTx       == Tx("Legacy", Some(DummyContract), <<>>, Some(Signer), 3)
InboxCreateTx == Tx("Eip4844", Some(FACET_INBOX_ADDRESS), CreatePayload, None, 4)
UnreadTx      == Tx("Eip7702", Some(FACET_INBOX_ADDRESS), KnownPayload, Some(Signer), 5)

KnownLog  == Log(Emitter, <<FACET_LOG_INBOX_EVENT_SIG>>, KnownPayload)
CreateLog == Log(HighEmitter, <<FACET_LOG_INBOX_EVENT_SIG, OtherTopic>>, CreatePayload)
DeadLog   == Log(Emitter, <<FACET_LOG_INBOX_EVENT_SIG>>, DeadBeef)
BareLog   == Log(DummyContract, <<>>, KnownPayload)
OtherLog  == Log(DummyContract, <<OtherTopic, FACET_LOG_INBOX_EVENT_SIG>>, KnownPayload)

OkReceipt        == Receipt("Eip658_true", <<>>)
OkLogReceipt     == Receipt("Eip658_true", <<KnownLog>>)
OkSkipReceipt    == Receipt("Eip658_true", <<BareLog, OtherLog, CreateLog, KnownLog>>)
OkDeadReceipt    == Receipt("Eip658_true", <<OtherLog, DeadLog, KnownLog>>)
FailedLogReceipt == Receipt("Eip658_false", <<KnownLog>>)

\* the (tx, receipt) pairs L1 blocks are made of: a small pool for the runs
\* that thread the monetary state, every combination for the single calls
SmallPool == {<<InboxKnownTx, OkReceipt>>, <<DummyTx, OkSkipReceipt>>}
FullPool ==
    {InboxKnownTx, InboxDeadTx, DummyTx, InboxCreateTx, UnreadTx}
    \X {OkReceipt, OkLogReceipt, OkSkipReceipt, OkDeadReceipt, FailedLogReceipt}

\* payloads that do not decode: another chain id (0xface7b), a list cut short
BadChainPayload ==
    <<70, 226, 131, 250, 206, 123, 148>> \o Rep(17, 20)
    \o <<128, 131, 15, 66, 64, 130, 18, 52, 128>>
TruncPayload == SubSeq(KnownPayload, 1, Len(KnownPayload) - 1)

InboxBadChainTx == Tx("Eip2930", Some(FACET_INBOX_ADDRESS), BadChainPayload, Some(Signer), 6)
InboxTruncTx    == Tx("Legacy", Some(FACET_INBOX_ADDRESS), TruncPayload, Some(Signer), 7)
ContractTx      == Tx("Eip1559", Some(DummyContract), DeadBeef, Some(Signer), 8)

ShortLog    == Log(Emitter, <<FACET_LOG_INBOX_EVENT_SIG>>, <<>>)
BadChainLog == Log(Emitter, <<FACET_LOG_INBOX_EVENT_SIG>>, BadChainPayload)
TruncLog    == Log(Emitter, <<FACET_LOG_INBOX_EVENT_SIG>>, TruncPayload)

OkShortReceipt    == Receipt("Eip658_true", <<ShortLog, KnownLog>>)
OkBadChainReceipt == Receipt("Eip658_true", <<OtherLog, BadChainLog>>)
OkTruncReceipt    == Receipt("Eip658_true", <<TruncLog>>)

\* L1 pairs whose payload fails to decode, on either path and with each
\* decode error, next to pairs that give a deposit
FaultyPool ==
    {<<InboxBadChainTx, OkLogReceipt>>, <<InboxTruncTx, OkReceipt>>,
     <<InboxDeadTx, OkSkipReceipt>>,
     <<DummyTx, OkShortReceipt>>, <<DummyTx, OkBadChainReceipt>>,
     <<DummyTx, OkTruncReceipt>>, <<DummyTx, OkDeadReceipt>>,
     <<InboxKnownTx, OkReceipt>>, <<ContractTx, OkSkipReceipt>>,
     <<InboxCreateTx, OkLogReceipt>>}

\* two EIP-7702 transactions, whose envelope the derivation does not read,
\* next to transactions it reads
UnreadContractTx == Tx("Eip7702", Some(DummyContract), <<>>, Some(Signer), 9)
UnreadPool ==
    {UnreadTx, UnreadContractTx, InboxKnownTx, DummyTx}
    \X {OkReceipt, OkLogReceipt, OkSkipReceipt}

PoolOf(name) ==
    IF name = "small" THEN SmallPool
    ELSE IF name = "faulty" THEN FaultyPool
    ELSE IF name = "unread" THEN UnreadPool
    ELSE FullPool

\* the L1 blocks of at most n pairs: no transaction occurs twice in a block
RECURSIVE ListsOver(_, _)
ListsOver(S, n) ==
    IF n = 0 THEN {<<>>}
    ELSE LET shorter == ListsOver(S, n - 1)
         IN  shorter \cup
             UNION {{<<x>> \o l : l \in {m \in shorter :
                                           /\ Len(m) = n - 1
                                           /\ \A i \in 1..Len(m) : m[i][1] # x[1]}}
                    : x \in S}

Firsts(pairs)  == [i \in 1..Len(pairs) |-> pairs[i][1]]
Seconds(pairs) == [i \in 1..Len(pairs) |-> pairs[i][2]]

\* L2 blocks: the genesis, a mid-period block, the last block of a period,
\* period boundaries, and boundaries after 1, 78, 79 and 128 halvings
Blocks ==
    {0, 5, ADJUSTMENT_PERIOD - 1, ADJUSTMENT_PERIOD, HALVING_PERIOD_IN_BLOCKS,
     78 * HALVING_PERIOD_IN_BLOCKS, 79 * HALVING_PERIOD_IN_BLOCKS,
     128 * HALVING_PERIOD_IN_BLOCKS}

\* rates of the parent block: 0 (what the tests pass), the bounds, rates whose
\* clamp window lies below, around and above the candidate, a rate above
\* 2 * MAX_RATE and one whose double overflows u128
Rates ==
    {Zero, One, INITIAL_RATE, Nat3(<<6, 0, 0, 0, 0, 0>>), MAX_RATE,
     Nat3(<<20, 0, 0, 0, 0, 2>>), Pow2(127)}

\* cumulative data gas of the parent block: none, so little that the candidate
\* exceeds every window, an amount that puts the candidate at INITIAL_RATE in
\* the first halving period, and so much that the candidate falls below
CumGas == {Zero, One, Nat3(<<500, 0, 0>>), Nat3(<<1, 0, 0, 0, 0>>)}

\* addresses: the ones of the tests, the zero address, the two around the
\* wrap (alias 0xff..ff and alias 0), all ones, and one whose carry runs
\* through sixteen bytes
Addresses ==
    {Emitter, Signer, DummyContract, FACET_INBOX_ADDRESS, ADDRESS_ZERO, HighEmitter,
     <<238, 238>> \o Rep(255, 16) \o <<238, 238>>,
     <<238, 238>> \o Rep(255, 16) \o <<238, 239>>,
     <<0, 0>> \o Rep(255, 18)}

\* byte strings whose data gas is taken
ByteStrings == {<<>>, <<0>>, <<70>>, <<0, 0, 1>>, DeadBeef, KnownPayload, CreatePayload}

----------------------------------------------------------------------------
(* The derivation of consecutive L2 blocks                                 *)

VARIABLES
    debug_build,                   \* overflow checks and debug assertions on
    pool,                          \* the pool L1 blocks are made of: small or full
    calls_left,                    \* derive calls still to be made
    l2_block,                      \* the L2 block to derive next
    fct_mint_rate,                 \* rate of the parent block
    fct_mint_period_l1_data_gas,   \* cumulative L1 data gas of the parent block
    call,                          \* arguments of the last derive call
    result,                        \* what the last derive call returned
    period_gas                     \* exact data gas of the current period so far

vars == <<debug_build, pool, calls_left, l2_block, fct_mint_rate,
          fct_mint_period_l1_data_gas, call, result, period_gas>>

NoCall == [txs |-> <<>>, receipts |-> <<>>, l2_block_number |-> 0,
           fct_mint_rate |-> Zero, fct_mint_period_l1_data_gas |-> Zero]
NoResult == [status |-> "none", deposits |-> <<>>, new_mint_rate |-> Zero,
             new_cumulative_l1_data_gas |-> Zero]

\* any block, any monetary state of the parent block
Init ==
    /\ debug_build \in BOOLEAN
    /\ pool = "small"
    /\ calls_left = MaxCalls
    /\ l2_block \in Blocks
    /\ fct_mint_rate \in Rates
    /\ fct_mint_period_l1_data_gas \in CumGas
    /\ call = NoCall
    /\ result = NoResult
    /\ period_gas = fct_mint_period_l1_data_gas

\* a single call on any L1 block
ExtractInit ==
    /\ debug_build \in BOOLEAN
    /\ pool = "full"
    /\ calls_left = 1
    /\ l2_block \in {1, ADJUSTMENT_PERIOD}
    /\ fct_mint_rate = INITIAL_RATE
    /\ fct_mint_period_l1_data_gas = Nat3(<<500, 0, 0>>)
    /\ call = NoCall
    /\ result = NoResult
    /\ period_gas = fct_mint_period_l1_data_gas

\* a single call on an L1 block with undecodable payloads
FaultInit ==
    /\ debug_build \in BOOLEAN
    /\ pool = "faulty"
    /\ calls_left = 1
    /\ l2_block \in {1, ADJUSTMENT_PERIOD}
    /\ fct_mint_rate = INITIAL_RATE
    /\ fct_mint_period_l1_data_gas = Nat3(<<500, 0, 0>>)
    /\ call = NoCall
    /\ result = NoResult
    /\ period_gas = fct_mint_period_l1_data_gas

\* a single call on an L1 block with transactions of an unread envelope
UnreadInit ==
    /\ debug_build \in BOOLEAN
    /\ pool = "unread"
    /\ calls_left = 1
    /\ l2_block \in {1, ADJUSTMENT_PERIOD}
    /\ fct_mint_rate = INITIAL_RATE
    /\ fct_mint_period_l1_data_gas = Nat3(<<500, 0, 0>>)
    /\ call = NoCall
    /\ result = NoResult
    /\ period_gas = fct_mint_period_l1_data_gas

\* a run that starts on a period boundary with the initial rate
ThreadInit ==
    /\ debug_build \in BOOLEAN
    /\ pool = "small"
    /\ calls_left = MaxCalls
    /\ l2_block \in {b \in Blocks : b % ADJUSTMENT_PERIOD = 0}
    /\ fct_mint_rate = INITIAL_RATE
    /\ fct_mint_period_l1_data_gas \in CumGas
    /\ call = NoCall
    /\ result = NoResult
    /\ period_gas = fct_mint_period_l1_data_gas

\* exact sum of the data gas of the payloads behind a deposit list
RECURSIVE GasOf(_, _)
GasOf(entries, i) ==
    IF i > Len(entries) THEN Zero
    ELSE Add(OfInt(entries[i].payload.l1_data_gas_used), GasOf(entries, i + 1))

\* mutant: from the second call on, the rate given to the call before is
\* used instead of the rate passed
Derive_remembering(pairs) ==
    /\ \E txs \in {Firsts(pairs)}, receipts \in {Seconds(pairs)} :
       \E r \in {derive_facet_deposits(debug_build, txs, receipts, L2_CHAIN_ID, l2_block,
                                       IF result.status = "none" THEN fct_mint_rate
                                       ELSE call.fct_mint_rate,
                                       fct_mint_period_l1_data_gas)},
          batch \in {GasOf(collect_from(txs, receipts, L2_CHAIN_ID, 1), 1)} :
        /\ call' = [txs |-> txs, receipts |-> receipts, l2_block_number |-> l2_block,
                    fct_mint_rate |-> fct_mint_rate,
                    fct_mint_period_l1_data_gas |-> fct_mint_period_l1_data_gas]
        /\ result' = r
        /\ calls_left' = calls_left - 1
        /\ IF r.status = "ok"
           THEN /\ l2_block' = l2_block + 1
                /\ fct_mint_rate' = r.new_mint_rate
                /\ fct_mint_period_l1_data_gas' = r.new_cumulative_l1_data_gas
                /\ period_gas' = IF l2_block % ADJUSTMENT_PERIOD = 0 THEN batch
                                 ELSE Add(period_gas, batch)
           ELSE UNCHANGED <<l2_block, fct_mint_rate, fct_mint_period_l1_data_gas,
                            period_gas>>
        /\ UNCHANGED <<debug_build, pool>>
\* derive_facet_deposits is called for l2_block on an L1 block made of pairs;
\* a returned state becomes the parent state of the next block
Derive(pairs) ==
    /\ \E txs \in {Firsts(pairs)}, receipts \in {Seconds(pairs)} :
       \E r \in {derive_facet_deposits(debug_build, txs, receipts, L2_CHAIN_ID, l2_block,
                                       fct_mint_rate, fct_mint_period_l1_data_gas)},
          batch \in {GasOf(collect_from(txs, receipts, L2_CHAIN_ID, 1), 1)} :
        /\ call' = [txs |-> txs, receipts |-> receipts, l2_block_number |-> l2_block,
                    fct_mint_rate |-> fct_mint_rate,
                    fct_mint_period_l1_data_gas |-> fct_mint_period_l1_data_gas]
        /\ result' = r
        /\ calls_left' = calls_left - 1
        /\ IF r.status = "ok"
           THEN /\ l2_block' = l2_block + 1
                /\ fct_mint_rate' = r.new_mint_rate
                /\ fct_mint_period_l1_data_gas' = r.new_cumulative_l1_data_gas
                /\ period_gas' = IF l2_block % ADJUSTMENT_PERIOD = 0 THEN batch
                                 ELSE Add(period_gas, batch)
           ELSE UNCHANGED <<l2_block, fct_mint_rate, fct_mint_period_l1_data_gas,
                            period_gas>>
        /\ UNCHANGED <<debug_build, pool>>

\* derivation goes on until the run ends or a call panics
Next ==
    /\ calls_left > 0
    /\ result.status # "panic"
    /\ \E pairs \in ListsOver(PoolOf(pool), MaxTxs) : Derive(pairs)

\* a caller that passes fewer receipts than transactions, or the reverse
MismatchInit ==
    /\ debug_build \in BOOLEAN
    /\ pool = "small"
    /\ calls_left = MaxCalls
    /\ l2_block \in {5, ADJUSTMENT_PERIOD - 1, ADJUSTMENT_PERIOD}
    /\ fct_mint_rate = INITIAL_RATE
    /\ fct_mint_period_l1_data_gas \in CumGas
    /\ call = NoCall
    /\ result = NoResult
    /\ period_gas = fct_mint_period_l1_data_gas

\* derive_facet_deposits is called with slices of any two lengths; the pairs
\* the loop sees are those of txs.iter().zip(receipts)
DeriveUnpaired(txs, receipts) ==
    \E r \in {derive_facet_deposits(debug_build, txs, receipts, L2_CHAIN_ID, l2_block,
                                     fct_mint_rate, fct_mint_period_l1_data_gas)},
       batch \in {GasOf(collect_from(txs, receipts, L2_CHAIN_ID, 1), 1)} :
        /\ call' = [txs |-> txs, receipts |-> receipts, l2_block_number |-> l2_block,
                    fct_mint_rate |-> fct_mint_rate,
                    fct_mint_period_l1_data_gas |-> fct_mint_period_l1_data_gas]
        /\ result' = r
        /\ calls_left' = calls_left - 1
        /\ IF r.status = "ok"
           THEN /\ l2_block' = l2_block + 1
                /\ fct_mint_rate' = r.new_mint_rate
                /\ fct_mint_period_l1_data_gas' = r.new_cumulative_l1_data_gas
                /\ period_gas' = IF l2_block % ADJUSTMENT_PERIOD = 0 THEN batch
                                 ELSE Add(period_gas, batch)
           ELSE UNCHANGED <<l2_block, fct_mint_rate, fct_mint_period_l1_data_gas,
                            period_gas>>
        /\ UNCHANGED <<debug_build, pool>>

MismatchNext ==
    /\ calls_left > 0
    /\ result.status # "panic"
    /\ \E pairs \in ListsOver(PoolOf(pool), MaxTxs) :
       \E n \in 0..(Len(pairs) - 1), short_txs \in BOOLEAN :
          \E txs \in {IF short_txs THEN SubSeq(Firsts(pairs), 1, n) ELSE Firsts(pairs)},
             receipts \in {IF short_txs THEN Seconds(pairs)
                           ELSE SubSeq(Seconds(pairs), 1, n)} :
              DeriveUnpaired(txs, receipts)

\* the codec and the gas accounting called on their own
CodecInit ==
    /\ debug_build = FALSE
    /\ pool = "none"
    /\ calls_left = 0
    /\ l2_block = 0
    /\ fct_mint_rate = Zero
    /\ fct_mint_period_l1_data_gas = Zero
    /\ call = NoCall
    /\ result = NoResult
    /\ period_gas = Zero

\* decode_facet_payload on the encoding of fields f
Decode(f, l2_chain_id, contract_initiated) ==
    /\ call' = [op |-> "decode", fields |-> f, bytes |-> MakePayload(f),
                l2_chain_id |-> l2_chain_id,
                contract_initiated |-> contract_initiated]
    /\ result' = Bind(decode_facet_payload(MakePayload(f), l2_chain_id, contract_initiated),
                      LAMBDA d : IF d.ok THEN [status |-> "decoded", payload |-> d.payload]
                                 ELSE [status |-> "failed", err |-> d.err])
    /\ UNCHANGED <<debug_build, pool, calls_left, l2_block, fct_mint_rate,
                   fct_mint_period_l1_data_gas, period_gas>>

\* alias_l1_to_l2 on an address
Alias(addr) ==
    /\ call' = [op |-> "alias", addr |-> addr]
    /\ result' = [status |-> "aliased", addr |-> alias_l1_to_l2(addr)]
    /\ UNCHANGED <<debug_build, pool, calls_left, l2_block, fct_mint_rate,
                   fct_mint_period_l1_data_gas, period_gas>>

\* calculate_data_gas_used on two byte strings and on their concatenation
DataGas(a, b, contract_initiated) ==
    /\ call' = [op |-> "gas", a |-> a, b |-> b, contract_initiated |-> contract_initiated]
    /\ result' = [status |-> "gas",
                  of_a |-> calculate_data_gas_used(a, contract_initiated),
                  of_b |-> calculate_data_gas_used(b, contract_initiated),
                  of_ab |-> calculate_data_gas_used(a \o b, contract_initiated)]
    /\ UNCHANGED <<debug_build, pool, calls_left, l2_block, fct_mint_rate,
                   fct_mint_period_l1_data_gas, period_gas>>

CodecNext ==
    \/ \E chain_id \in {L2_CHAIN_ID, L2_CHAIN_ID + 1}, to_length \in ToLengths,
          gas_limit \in {GasLimitItem, BadGasLimitItem}, mine_boost \in {<<>>, <<0, 0, 7>>},
          l2_chain_id \in {L2_CHAIN_ID, L2_CHAIN_ID + 1}, contract_initiated \in BOOLEAN :
          Decode(PayloadFields(chain_id, to_length, gas_limit, mine_boost),
                 l2_chain_id, contract_initiated)
    \/ \E addr \in Addresses : Alias(addr)
    \/ \E a \in ByteStrings, b \in ByteStrings, ci \in BOOLEAN : DataGas(a, b, ci)

Spec == Init /\ [][Next]_vars
CodecSpec == CodecInit /\ [][CodecNext]_vars
MismatchSpec == MismatchInit /\ [][MismatchNext]_vars
ExtractSpec == ExtractInit /\ [][Next]_vars
FaultSpec == FaultInit /\ [][Next]_vars
UnreadSpec == UnreadInit /\ [][Next]_vars
ThreadSpec == ThreadInit /\ [][Next]_vars

----------------------------------------------------------------------------
(* Interop activation (supervisor/core/src/config/rollup_config_set.rs)    *)

\* u64::saturating_sub
saturating_sub(a, b) == IF a < b THEN 0 ELSE a - b

\* RollupConfig::is_post_interop
is_post_interop(cfg, timestamp) ==
    /\ cfg.interop_time # None
    /\ saturating_sub(timestamp, cfg.block_time) >= cfg.interop_time[1]

\* RollupConfigSet::get and is_interop_enabled; rollups maps chain ids to configs
is_interop_enabled(rollups, chain_id, timestamp) ==
    IF chain_id \in DOMAIN rollups THEN is_post_interop(rollups[chain_id], timestamp)
    ELSE FALSE

\* genesis times, block times and activation times of the chains looked at,
\* and the time up to which blocks are produced
MaxTime == 8
GenesisTimes == {0, 1, 2, 5}
BlockTimes == {1, 2, 3}
InteropTimes == {None} \cup {Some(t) : t \in 0..6}
ConfiguredChain == 10
OtherChain == 11

\* RollupConfig::new for one chain, whose genesis block is the current block
InteropInit ==
    /\ debug_build = FALSE
    /\ pool = "none"
    /\ calls_left = 0
    /\ l2_block = 0
    /\ fct_mint_rate = Zero
    /\ fct_mint_period_l1_data_gas = Zero
    /\ period_gas = Zero
    /\ \E g \in GenesisTimes, bt \in BlockTimes, it \in InteropTimes :
          call = [op |-> "interop", genesis_time |-> g, block_time |-> bt,
                  interop_time |-> it, timestamp |-> g]
    /\ result = [status |-> "configured"]

\* is_interop_enabled is asked about the current block of a chain
IsInteropEnabled(chain_id) ==
    /\ result' = [status |-> "answered", chain_id |-> chain_id,
                  post |-> is_interop_enabled(
                      ConfiguredChain :> [block_time |-> call.block_time,
                                          interop_time |-> call.interop_time],
                      chain_id, call.timestamp)]
    /\ UNCHANGED <<debug_build, pool, calls_left, l2_block, fct_mint_rate,
                   fct_mint_period_l1_data_gas, call, period_gas>>

\* the chain produces its next block, block_time later
NextBlock ==
    /\ call.timestamp + call.block_time <= MaxTime
    /\ call' = [call EXCEPT !.timestamp = @ + call.block_time]
    /\ result' = [status |-> "produced"]
    /\ UNCHANGED <<debug_build, pool, calls_left, l2_block, fct_mint_rate,
                   fct_mint_period_l1_data_gas, period_gas>>

InteropNext ==
    \/ \E chain_id \in {ConfiguredChain, OtherChain} : IsInteropEnabled(chain_id)
    \/ NextBlock

InteropSpec == InteropInit /\ [][InteropNext]_vars

----------------------------------------------------------------------------
(* NativeChannel (proof/preimage): one reader and its writing peer         *)

MaxWritten == 5
MaxMessages == 3
MsgLens == 0..3
BufLens == 0..3

\* usize::min
min(a, b) == IF b < a THEN b ELSE a

\* &s[..n] and &s[n..]
Take(s, n) == SubSeq(s, 1, n)
Drop(s, n) == SubSeq(s, n + 1, Len(s))

\* the message of n bytes the peer writes after `written`: each byte carries
\* its position in the stream, so a lost, repeated or displaced byte shows
Message(written, n) == [i \in 1..n |-> Len(written) + i]

\* the bytes of the messages queued in the channel, in order
RECURSIVE Concat(_)
Concat(msgs) == IF msgs = <<>> THEN <<>> ELSE Head(msgs) \o Concat(Tail(msgs))

\* BidirectionalChannel::new, seen from one handle: nothing sent, empty buffer
ChannelInit ==
    /\ debug_build = FALSE
    /\ pool = "none"
    /\ calls_left = 0
    /\ l2_block = 0
    /\ fct_mint_rate = Zero
    /\ fct_mint_period_l1_data_gas = Zero
    /\ period_gas = Zero
    /\ call = [op |-> "channel", queue |-> <<>>, read_buffer |-> <<>>,
               closed |-> FALSE, written |-> <<>>, sent |-> 0]
    /\ result = [status |-> "idle", buf_len |-> 0, buf |-> <<>>, recvs |-> 0,
                 delivered |-> <<>>]

\* no read or read_exact of the one reader is waiting for a message
ReaderIdle == result.status \notin {"read_recv", "read_exact_recv"}

\* the peer's write: one message is sent
Write(n) ==
    /\ ~call.closed
    /\ Len(call.written) + n <= MaxWritten
    /\ call.sent < MaxMessages
    /\ call' = [call EXCEPT !.queue = Append(@, Message(call.written, n)),
                            !.written = @ \o Message(call.written, n),
                            !.sent = @ + 1]
    /\ UNCHANGED <<debug_build, pool, calls_left, l2_block, fct_mint_rate,
                   fct_mint_period_l1_data_gas, result, period_gas>>

\* the peer drops its handle: recv fails once the queue is empty
Close ==
    /\ ~call.closed
    /\ call' = [call EXCEPT !.closed = TRUE]
    /\ UNCHANGED <<debug_build, pool, calls_left, l2_block, fct_mint_rate,
                   fct_mint_period_l1_data_gas, result, period_gas>>

\* read up to its await: buffered data is served first
Read(n) ==
    /\ ReaderIdle
    /\ IF call.read_buffer # <<>>
       THEN LET len == min(n, Len(call.read_buffer))
            IN  /\ call' = [call EXCEPT !.read_buffer = Drop(@, len)]
                /\ result' = [status |-> "read_ok", buf_len |-> n,
                              buf |-> Take(call.read_buffer, len), recvs |-> 0,
                              delivered |-> result.delivered
                                              \o Take(call.read_buffer, len)]
       ELSE /\ call' = call
            /\ result' = [status |-> "read_recv", buf_len |-> n, buf |-> <<>>,
                          recvs |-> 0, delivered |-> result.delivered]
    /\ UNCHANGED <<debug_build, pool, calls_left, l2_block, fct_mint_rate,
                   fct_mint_period_l1_data_gas, period_gas>>

\* read from its recv on: the message is copied, its excess is buffered
ReadRecv ==
    /\ result.status = "read_recv"
    /\ call.queue # <<>> \/ call.closed
    /\ IF call.queue = <<>>
       THEN /\ call' = call
            /\ result' = [result EXCEPT !.status = "read_closed"]
       ELSE LET data == Head(call.queue)
                len == min(Len(data), result.buf_len)
            IN  /\ call' = [call EXCEPT
                              !.queue = Tail(@),
                              !.read_buffer =
                                  IF Len(data) > result.buf_len
                                  THEN @ \o Drop(data, result.buf_len) ELSE @]
                /\ result' = [result EXCEPT
                                !.status = "read_ok",
                                !.buf = Take(data, len),
                                !.recvs = 1,
                                !.delivered = @ \o Take(data, len)]
    /\ UNCHANGED <<debug_build, pool, calls_left, l2_block, fct_mint_rate,
                   fct_mint_period_l1_data_gas, period_gas>>

\* mutant: the drain empties the buffer, also of what buf has no room for
ReadExactLoop_clearing(buf_len, buf, read_buffer) ==
    LET n == IF Len(buf) < buf_len
             THEN min(buf_len - Len(buf), Len(read_buffer)) ELSE 0
    IN  [buf |-> buf \o Take(read_buffer, n),
         read_buffer |-> <<>>,
         awaiting |-> Len(buf) + n < buf_len]
\* read_exact's loop from its head to the next await or to the return: the
\* buffered data is drained into buf
ReadExactLoop(buf_len, buf, read_buffer) ==
    LET n == IF Len(buf) < buf_len
             THEN min(buf_len - Len(buf), Len(read_buffer)) ELSE 0
    IN  [buf |-> buf \o Take(read_buffer, n),
         read_buffer |-> Drop(read_buffer, n),
         awaiting |-> Len(buf) + n < buf_len]

\* read_exact up to its first await
ReadExact(n) ==
    /\ ReaderIdle
    /\ LET s == ReadExactLoop(n, <<>>, call.read_buffer)
       IN  /\ call' = [call EXCEPT !.read_buffer = s.read_buffer]
           /\ result' = [status |-> IF s.awaiting THEN "read_exact_recv"
                                    ELSE "read_exact_ok",
                         buf_len |-> n, buf |-> s.buf, recvs |-> 0,
                         delivered |-> result.delivered \o s.buf]
    /\ UNCHANGED <<debug_build, pool, calls_left, l2_block, fct_mint_rate,
                   fct_mint_period_l1_data_gas, period_gas>>

\* read_exact from a recv to the next await or to the return
ReadExactRecv ==
    /\ result.status = "read_exact_recv"
    /\ call.queue # <<>> \/ call.closed
    /\ IF call.queue = <<>>
       THEN /\ call' = call
            /\ result' = [result EXCEPT !.status = "read_exact_closed"]
       ELSE LET data == Head(call.queue)
                remaining == result.buf_len - Len(result.buf)
                to_copy == min(Len(data), remaining)
                s == ReadExactLoop(
                         result.buf_len, result.buf \o Take(data, to_copy),
                         IF Len(data) > to_copy
                         THEN call.read_buffer \o Drop(data, to_copy)
                         ELSE call.read_buffer)
            IN  /\ call' = [call EXCEPT !.queue = Tail(@),
                                        !.read_buffer = s.read_buffer]
                /\ result' = [result EXCEPT
                                !.status = IF s.awaiting THEN "read_exact_recv"
                                           ELSE "read_exact_ok",
                                !.buf = s.buf,
                                !.recvs = @ + 1,
                                !.delivered = @ \o Take(data, to_copy)
                                                \o Drop(s.buf, Len(result.buf)
                                                                 + to_copy)]
    /\ UNCHANGED <<debug_build, pool, calls_left, l2_block, fct_mint_rate,
                   fct_mint_period_l1_data_gas, period_gas>>

ChannelNext ==
    \/ \E n \in MsgLens : Write(n)
    \/ Close
    \/ \E n \in BufLens : Read(n)
    \/ ReadRecv
    \/ \E n \in BufLens : ReadExact(n)
    \/ ReadExactRecv

ChannelSpec == ChannelInit /\ [][ChannelNext]_vars

----------------------------------------------------------------------------
(* The retry loop of validate-facet (validate_derivation, validate_execution) *)

ErrorTypes == {"Network", "RateLimit", "NotFound", "Validation", "System", "Unknown"}

\* ErrorType::should_retry
should_retry(error_type) == TRUE

\* mutant: every error type is given the retries of a network error
max_retries_uniform(error_type) == 10
\* ErrorType::max_retries
max_retries(error_type) ==
    IF error_type \in {"Network", "RateLimit"} THEN 10
    ELSE IF error_type = "NotFound" THEN 5
    ELSE 1

\* the reset duration of the circuit breaker, in seconds
reset_duration == 60
\* the time since the last recorded failure when the breaker is asked: within
\* the reset duration or beyond it (the backoff sleeps up to 75 s)
Elapsed == {0, 61}

\* CircuitBreaker::new(5, 60 s); last_failure_time holds the time elapsed
\* since that instant
CircuitBreaker_new == [consecutive_failures |-> 0, last_failure_time |-> None,
                       threshold |-> 5]

record_success(cb) ==
    [cb EXCEPT !.consecutive_failures = 0, !.last_failure_time = None]

record_failure(cb) ==
    [cb EXCEPT !.consecutive_failures = @ + 1, !.last_failure_time = Some(0)]

is_open(cb) ==
    IF cb.consecutive_failures >= cb.threshold
    THEN IF cb.last_failure_time # None /\ cb.last_failure_time[1] > reset_duration
         THEN FALSE
         ELSE TRUE
    ELSE FALSE

\* the sleep before the next turn of the loop: the time since the last
\* recorded failure grows to e, unless it is beyond the reset duration already
sleep(cb, e) ==
    IF cb.last_failure_time = None THEN cb
    ELSE [cb EXCEPT !.last_failure_time = Some(IF @[1] > e THEN @[1] ELSE e)]

\* the max_retries a caller passes
MaxRetriesArgs == {0, 1, 2, 5, 6, 11}

CircuitBreakerOpenError == "Circuit breaker open - too many consecutive network failures"

TestResult(success, error, error_type, retries) ==
    [success |-> success, error |-> error, error_type |-> error_type,
     retries |-> retries]

\* validate_derivation or validate_execution is entered
ValidateInit ==
    /\ debug_build = FALSE
    /\ pool = "none"
    /\ calls_left = 0
    /\ l2_block = 0
    /\ fct_mint_rate = Zero
    /\ fct_mint_period_l1_data_gas = Zero
    /\ period_gas = Zero
    /\ \E test \in {"derivation", "execution"}, m \in MaxRetriesArgs :
          call = [op |-> test, max_retries |-> m, outcomes |-> <<>>]
    /\ result = [status |-> "looping", retries |-> 0, last_error |-> None,
                 last_error_type |-> None, circuit_breaker |-> CircuitBreaker_new,
                 effective_max_retries |-> call.max_retries, returned |-> None]

\* a turn of the loop that finds the circuit breaker open
CircuitOpen ==
    /\ result.status = "looping"
    /\ is_open(result.circuit_breaker)
    /\ result' = [result EXCEPT
                    !.status = "returned",
                    !.returned = Some(TestResult(FALSE, Some(CircuitBreakerOpenError),
                                                 Some("Network"), result.retries))]
    /\ UNCHANGED <<debug_build, pool, calls_left, l2_block, fct_mint_rate,
                   fct_mint_period_l1_data_gas, call, period_gas>>

\* a turn of the loop whose test succeeds
RunTestOk ==
    /\ result.status = "looping"
    /\ ~is_open(result.circuit_breaker)
    /\ call' = [call EXCEPT !.outcomes = Append(@, "Ok")]
    /\ result' = [result EXCEPT
                    !.status = "returned",
                    !.circuit_breaker = record_success(@),
                    !.returned = Some(TestResult(TRUE, None, None, result.retries))]
    /\ UNCHANGED <<debug_build, pool, calls_left, l2_block, fct_mint_rate,
                   fct_mint_period_l1_data_gas, period_gas>>

\* mutant: the error type does not lower the effective max retries
RunTestErr_uncapped(error_type, e) ==
    /\ result.status = "looping"
    /\ ~is_open(result.circuit_breaker)
    /\ call' = [call EXCEPT !.outcomes = Append(@, error_type)]
    /\ LET effective_max_retries ==
               result.effective_max_retries
           circuit_breaker ==
               IF error_type = "Network" \/ error_type = "RateLimit"
               THEN record_failure(result.circuit_breaker)
               ELSE result.circuit_breaker
           failed == [result EXCEPT
                        !.last_error = Some("Err"),
                        !.last_error_type = Some(error_type),
                        !.effective_max_retries = effective_max_retries,
                        !.circuit_breaker = circuit_breaker]
       IN  IF ~should_retry(error_type) \/ result.retries >= effective_max_retries
           THEN result' = [failed EXCEPT
                             !.status = "returned",
                             !.returned = Some(TestResult(FALSE, Some("Err"),
                                                          Some(error_type),
                                                          result.retries))]
           ELSE result' = [failed EXCEPT
                             !.retries = @ + 1,
                             !.circuit_breaker = sleep(circuit_breaker, e)]
    /\ UNCHANGED <<debug_build, pool, calls_left, l2_block, fct_mint_rate,
                   fct_mint_period_l1_data_gas, period_gas>>
\* a turn of the loop whose test fails with an error classified as
\* error_type; a retry sleeps, after which e has elapsed since the failure
RunTestErr(error_type, e) ==
    /\ result.status = "looping"
    /\ ~is_open(result.circuit_breaker)
    /\ call' = [call EXCEPT !.outcomes = Append(@, error_type)]
    /\ LET effective_max_retries ==
               min(result.effective_max_retries, max_retries(error_type))
           circuit_breaker ==
               IF error_type = "Network" \/ error_type = "RateLimit"
               THEN record_failure(result.circuit_breaker)
               ELSE result.circuit_breaker
           failed == [result EXCEPT
                        !.last_error = Some("Err"),
                        !.last_error_type = Some(error_type),
                        !.effective_max_retries = effective_max_retries,
                        !.circuit_breaker = circuit_breaker]
       IN  IF ~should_retry(error_type) \/ result.retries >= effective_max_retries
           THEN result' = [failed EXCEPT
                             !.status = "returned",
                             !.returned = Some(TestResult(FALSE, Some("Err"),
                                                          Some(error_type),
                                                          result.retries))]
           ELSE result' = [failed EXCEPT
                             !.retries = @ + 1,
                             !.circuit_breaker = sleep(circuit_breaker, e)]
    /\ UNCHANGED <<debug_build, pool, calls_left, l2_block, fct_mint_rate,
                   fct_mint_period_l1_data_gas, period_gas>>

ValidateNext ==
    \/ CircuitOpen
    \/ RunTestOk
    \/ \E error_type \in ErrorTypes, e \in Elapsed : RunTestErr(error_type, e)

ValidateSpec == ValidateInit /\ [][ValidateNext]_vars

----------------------------------------------------------------------------
(* The counters of validate-facet (ValidationState), with concurrent tasks  *)

MaxBlocks == 3
\* the tasks the semaphore lets run at a time
Workers == {1, 2}

\* ValidationState::new for `total` blocks; no task has started
StatsInit ==
    /\ debug_build = FALSE
    /\ pool = "none"
    /\ calls_left = 0
    /\ l2_block = 0
    /\ fct_mint_rate = Zero
    /\ fct_mint_period_l1_data_gas = Zero
    /\ period_gas = Zero
    /\ \E total \in 1..MaxBlocks :
          call = [op |-> "stats", total |-> total, spawned |-> 0, completed |-> 0,
                  failed |-> 0, results_mutex |-> 0]
    /\ result = [status |-> "running",
                 pc |-> [w \in Workers |-> "done"],
                 is_failed |-> [w \in Workers |-> FALSE],
                 completed |-> [w \in Workers |-> 0],
                 stats |-> [w \in Workers |-> None]]

\* main spawns the task of the next block; its validation ends with a result
\* that is failed or not
Spawn(w, is_failed) ==
    /\ result.pc[w] = "done"
    /\ call.spawned < call.total
    /\ call' = [call EXCEPT !.spawned = @ + 1]
    /\ result' = [result EXCEPT !.pc[w] = "validated", !.is_failed[w] = is_failed]
    /\ UNCHANGED <<debug_build, pool, calls_left, l2_block, fct_mint_rate,
                   fct_mint_period_l1_data_gas, period_gas>>

\* record_result: the results mutex is taken and the result is written
LockResults(w) ==
    /\ result.pc[w] = "validated"
    /\ call.results_mutex = 0
    /\ call' = [call EXCEPT !.results_mutex = w]
    /\ result' = [result EXCEPT !.pc[w] = "locked"]
    /\ UNCHANGED <<debug_build, pool, calls_left, l2_block, fct_mint_rate,
                   fct_mint_period_l1_data_gas, period_gas>>

\* record_result: failed.fetch_add(1) for a failed result
AddFailed(w) ==
    /\ result.pc[w] = "locked"
    /\ call' = [call EXCEPT !.failed = IF result.is_failed[w] THEN @ + 1 ELSE @]
    /\ result' = [result EXCEPT !.pc[w] = "failed_added"]
    /\ UNCHANGED <<debug_build, pool, calls_left, l2_block, fct_mint_rate,
                   fct_mint_period_l1_data_gas, period_gas>>

\* record_result: completed.fetch_add(1), and the guard is dropped on return
AddCompleted(w) ==
    /\ result.pc[w] = "failed_added"
    /\ call' = [call EXCEPT !.completed = @ + 1, !.results_mutex = 0]
    /\ result' = [result EXCEPT !.pc[w] = "recorded"]
    /\ UNCHANGED <<debug_build, pool, calls_left, l2_block, fct_mint_rate,
                   fct_mint_period_l1_data_gas, period_gas>>

\* get_stats: completed.load()
LoadCompleted(w) ==
    /\ result.pc[w] = "recorded"
    /\ result' = [result EXCEPT !.pc[w] = "completed_loaded",
                                !.completed[w] = call.completed]
    /\ UNCHANGED <<debug_build, pool, calls_left, l2_block, fct_mint_rate,
                   fct_mint_period_l1_data_gas, call, period_gas>>

\* get_stats: failed.load(); the pair read makes the Stats of the task
LoadFailed(w) ==
    /\ result.pc[w] = "completed_loaded"
    /\ result' = [result EXCEPT
                    !.pc[w] = "done",
                    !.stats[w] = Some([completed |-> result.completed[w],
                                       failed |-> call.failed,
                                       total |-> call.total])]
    /\ UNCHANGED <<debug_build, pool, calls_left, l2_block, fct_mint_rate,
                   fct_mint_period_l1_data_gas, call, period_gas>>

StatsNext ==
    \E w \in Workers :
        \/ \E is_failed \in BOOLEAN : Spawn(w, is_failed)
        \/ LockResults(w)
        \/ AddFailed(w)
        \/ AddCompleted(w)
        \/ LoadCompleted(w)
        \/ LoadFailed(w)

StatsSpec == StatsInit /\ [][StatsNext]_vars

----------------------------------------------------------------------------
(* Properties                                                              *)

\* the last call returned (it did not panic)
Returned == result.status = "ok"

\* block b is the first block of an adjustment period
PeriodBoundary(b) == b % ADJUSTMENT_PERIOD = 0

\* the clamp window of a previous rate and the unclamped candidate, as
\* mathematical (unbounded) quantities
WindowLower(prev_rate) == Max(Div(prev_rate, Two), One)
WindowUpper(prev_rate) == Min(Mul(prev_rate, Two), MAX_RATE)
ExactTarget(b) == Div(TARGET_MINT_PER_PERIOD, Pow2(b \div HALVING_PERIOD_IN_BLOCKS))
Candidate(b, cum) == IF cum = Zero THEN MAX_RATE ELSE Div(ExactTarget(b), cum)

\* C1: at a period-boundary block the returned rate lies in the clamp window
\* max(prev_rate/2, 1) <= new_rate <= min(2*prev_rate, MAX_RATE), for every
\* previous rate and cumulative gas.
C1_RateInClampWindow ==
    (Returned /\ PeriodBoundary(call.l2_block_number)) =>
        /\ Le(WindowLower(call.fct_mint_rate), result.new_mint_rate)
        /\ Le(result.new_mint_rate, WindowUpper(call.fct_mint_rate))

\* C2: at a period-boundary block the returned rate is exactly
\* clamp(candidate, lower, upper), with candidate = MAX_RATE when the
\* cumulative gas is 0 and halving_adjusted_target / cumulative gas otherwise.
C2_RateIsClampedCandidate ==
    (Returned /\ PeriodBoundary(call.l2_block_number)) =>
        LET lower == WindowLower(call.fct_mint_rate)
            upper == WindowUpper(call.fct_mint_rate)
            cand  == Candidate(call.l2_block_number, call.fct_mint_period_l1_data_gas)
        IN  result.new_mint_rate = Max(lower, Min(cand, upper))

\* C3: at a period-boundary block, when the cumulative L1 data gas of the
\* previous period is 0, the returned rate is MAX_RATE.
C3_ZeroGasGivesMaxRate ==
    (/\ Returned
     /\ PeriodBoundary(call.l2_block_number)
     /\ call.fct_mint_period_l1_data_gas = Zero) =>
        result.new_mint_rate = MAX_RATE

\* the exact data gas of the payloads extracted from an L1 block
ExactBatchGas(txs, receipts) == GasOf(collect_from(txs, receipts, L2_CHAIN_ID, 1), 1)

\* C4: off a period boundary derive returns the previous rate, so between
\* consecutive blocks the rate changes only when the later one is a boundary.
C4_RateFixedOffBoundary ==
    [][/\ (~PeriodBoundary(l2_block) /\ result'.status = "ok")
            => result'.new_mint_rate = fct_mint_rate
       /\ fct_mint_rate' # fct_mint_rate => PeriodBoundary(l2_block)]_vars

\* a second, threaded call off a boundary that produced deposits
C4_Witness ==
    /\ Returned
    /\ ~PeriodBoundary(call.l2_block_number)
    /\ calls_left <= MaxCalls - 2
    /\ result.deposits # <<>>
    /\ call.fct_mint_period_l1_data_gas # Zero
    /\ call.fct_mint_rate = INITIAL_RATE
    /\ fct_mint_rate = INITIAL_RATE

C6_CumGasIsPeriodSum ==
    [][result'.status = "ok" =>
          /\ fct_mint_period_l1_data_gas' = period_gas'
          /\ ~PeriodBoundary(l2_block)
                => Le(fct_mint_period_l1_data_gas, fct_mint_period_l1_data_gas')
          /\ call'.fct_mint_period_l1_data_gas = period_gas]_vars

\* a boundary call that reads a total grown by the call before it and resets
C6_Witness ==
    /\ Returned
    /\ PeriodBoundary(call.l2_block_number)
    /\ calls_left <= MaxCalls - 2
    /\ call.fct_mint_period_l1_data_gas \notin CumGas
    /\ result.deposits # <<>>
    /\ Lt(fct_mint_period_l1_data_gas, call.fct_mint_period_l1_data_gas)

\* what a (tx, receipt) pair looks like from outside
Successful(receipt) == receipt.status = "Eip658_true"
ToInbox(tx) ==
    /\ tx.variant \in ReadVariants
    /\ tx.to = Some(FACET_INBOX_ADDRESS)
    /\ tx.input # <<>>
Valid(bytes, contract_initiated) ==
    decode_facet_payload(bytes, L2_CHAIN_ID, contract_initiated).ok
DataOf(bytes) == decode_facet_payload(bytes, L2_CHAIN_ID, FALSE).payload.data
MatchingLogs(receipt) ==
    {k \in 1..Len(receipt.logs) :
        /\ Len(receipt.logs[k].topics) >= 1
        /\ receipt.logs[k].topics[1] = FACET_LOG_INBOX_EVENT_SIG}
FirstMatching(receipt) ==
    receipt.logs[CHOOSE k \in MatchingLogs(receipt) :
                    \A m \in MatchingLogs(receipt) : k <= m]

\* the deposits of the last call that stem from tx
DepositsOf(tx) ==
    {j \in 1..Len(result.deposits) : result.deposits[j].source_hash = tx_hash_of(tx)}

CalldataGas(bytes) ==
    4 * Cardinality({k \in 1..Len(bytes) : bytes[k] = 0})
    + 16 * Cardinality({k \in 1..Len(bytes) : bytes[k] # 0})
MintFor(gas, rate) == Min(Mul(OfInt(gas), rate), U128_MAX)

\* C7: a successful transaction to the inbox with a valid payload and a
\* matching log yields exactly one deposit, the calldata one: from is the
\* recovered signer, the gas is counted per zero / non-zero byte of the input.
C7_CalldataDominance ==
    Returned =>
        \A i \in 1..Len(call.txs) :
            LET tx == call.txs[i]
                rc == call.receipts[i]
            IN  (/\ Successful(rc)
                 /\ ToInbox(tx)
                 /\ Valid(tx.input, FALSE)
                 /\ MatchingLogs(rc) # {}) =>
                    \E j \in 1..Len(result.deposits) :
                        /\ DepositsOf(tx) = {j}
                        /\ tx.signer # None => result.deposits[j].from = tx.signer[1]
                        /\ result.deposits[j].from # alias_l1_to_l2(FirstMatching(rc).address)
                        /\ result.deposits[j].input = DataOf(tx.input)
                        /\ result.deposits[j].mint =
                               Some(MintFor(CalldataGas(tx.input), result.new_mint_rate))

\* such a transaction, whose first matching log is valid too
C7_Witness ==
    /\ Returned
    /\ \E i \in 1..Len(call.txs) :
        /\ Successful(call.receipts[i])
        /\ ToInbox(call.txs[i])
        /\ Valid(call.txs[i].input, FALSE)
        /\ call.txs[i].signer # None
        /\ MatchingLogs(call.receipts[i]) # {}
        /\ Valid(FirstMatching(call.receipts[i]).data, TRUE)
        /\ DataOf(FirstMatching(call.receipts[i]).data) # DataOf(call.txs[i].input)
        /\ DepositsOf(call.txs[i]) # {}

\* C8: when the input of a successful transaction to the inbox fails to
\* decode, the logs are still scanned and a valid first matching log yields a
\* deposit from the aliased emitter.
C8_LogPathAfterFailedCalldata ==
    Returned =>
        \A i \in 1..Len(call.txs) :
            LET tx == call.txs[i]
                rc == call.receipts[i]
            IN  (/\ Successful(rc)
                 /\ ToInbox(tx)
                 /\ ~Valid(tx.input, FALSE)
                 /\ MatchingLogs(rc) # {}
                 /\ Valid(FirstMatching(rc).data, TRUE)) =>
                    \E j \in DepositsOf(tx) :
                        result.deposits[j].from = alias_l1_to_l2(FirstMatching(rc).address)

\* C9: on the log path only the first log with the inbox topic-0 counts: no
\* deposit when it does not decode, whatever follows it; logs without topics
\* or with another topic-0 before it are passed over.
C9_FirstMatchingLogOnly ==
    Returned =>
        \A i \in 1..Len(call.txs) :
            LET tx == call.txs[i]
                rc == call.receipts[i]
            IN  (Successful(rc) /\ ~ToInbox(tx)) =>
                    IF MatchingLogs(rc) = {} THEN DepositsOf(tx) = {}
                    ELSE IF ~Valid(FirstMatching(rc).data, TRUE) THEN DepositsOf(tx) = {}
                    ELSE \E j \in 1..Len(result.deposits) :
                            /\ DepositsOf(tx) = {j}
                            /\ result.deposits[j].from =
                                   alias_l1_to_l2(FirstMatching(rc).address)
                            /\ result.deposits[j].input = DataOf(FirstMatching(rc).data)

\* the first matching log does not decode, a later one would: no deposit; and
\* in the same block a first matching log behind other logs gives one
C9_Witness ==
    /\ Returned
    /\ \E i \in 1..Len(call.txs) :
        /\ Successful(call.receipts[i])
        /\ ~ToInbox(call.txs[i])
        /\ Cardinality(MatchingLogs(call.receipts[i])) >= 2
        /\ ~Valid(FirstMatching(call.receipts[i]).data, TRUE)
        /\ \E k \in MatchingLogs(call.receipts[i]) : Valid(call.receipts[i].logs[k].data, TRUE)
        /\ DepositsOf(call.txs[i]) = {}
    /\ \E i \in 1..Len(call.txs) :
        /\ Successful(call.receipts[i])
        /\ ~ToInbox(call.txs[i])
        /\ 1 \notin MatchingLogs(call.receipts[i])
        /\ DepositsOf(call.txs[i]) # {}

Without(s, i) == SubSeq(s, 1, i - 1) \o SubSeq(s, i + 1, Len(s))

\* C10: a pair whose receipt is not successful contributes nothing: the call
\* returns what it returns without the pair; a block of failed pairs only
\* gives no deposit and leaves the carry (0 on a boundary).
C10_FailedPairsContributeNothing ==
    Returned =>
        /\ \A i \in 1..Len(call.txs) :
            ~Successful(call.receipts[i]) =>
                LET r == derive_facet_deposits(debug_build, Without(call.txs, i),
                             Without(call.receipts, i), L2_CHAIN_ID, call.l2_block_number,
                             call.fct_mint_rate, call.fct_mint_period_l1_data_gas)
                IN  /\ r.status = "ok"
                    /\ r.deposits = result.deposits
                    /\ r.new_mint_rate = result.new_mint_rate
                    /\ r.new_cumulative_l1_data_gas = result.new_cumulative_l1_data_gas
        /\ (\A i \in 1..Len(call.txs) : ~Successful(call.receipts[i])) =>
                /\ result.deposits = <<>>
                /\ result.new_cumulative_l1_data_gas =
                       IF PeriodBoundary(call.l2_block_number) THEN Zero
                       ELSE call.fct_mint_period_l1_data_gas

\* a failed inbox transaction with a valid payload and a valid log, next to a
\* successful one that gives a deposit
C10_Witness ==
    /\ Returned
    /\ Len(call.txs) >= 2
    /\ result.deposits # <<>>
    /\ \E i \in 1..Len(call.txs) :
        /\ ~Successful(call.receipts[i])
        /\ ToInbox(call.txs[i])
        /\ Valid(call.txs[i].input, FALSE)
        /\ MatchingLogs(call.receipts[i]) # {}
        /\ i < Len(call.txs)

\* C11: the deposits are a one-to-one, order-preserving selection of the
\* successful transactions: each transaction has at most one deposit, every
\* deposit stems from a successful transaction, deposits follow the L1 order
\* of their transactions, and so len(deposits) <= #successful <= len(txs).
C11_OrderedSelection ==
    Returned =>
        LET n    == Len(call.txs)
            good == {i \in 1..n : Successful(call.receipts[i])}
        IN  /\ \A i \in 1..n :
                /\ Cardinality(DepositsOf(call.txs[i])) <= 1
                /\ DepositsOf(call.txs[i]) # {} => i \in good
            /\ \A j \in 1..Len(result.deposits) :
                \E i \in 1..n : j \in DepositsOf(call.txs[i])
            /\ \A i1, i2 \in 1..n :
                \A j1 \in DepositsOf(call.txs[i1]), j2 \in DepositsOf(call.txs[i2]) :
                    i1 < i2 => j1 < j2
            /\ Len(result.deposits) <= Cardinality(good)
            /\ Cardinality(good) <= n

\* a log-path deposit followed by a calldata-path deposit with another payload
C11_Witness ==
    /\ Returned
    /\ Len(call.txs) = 2
    /\ Len(result.deposits) = 2
    /\ ~ToInbox(call.txs[1])
    /\ ToInbox(call.txs[2])
    /\ DepositsOf(call.txs[1]) = {1}
    /\ DepositsOf(call.txs[2]) = {2}
    /\ result.deposits[1].input # result.deposits[2].input

\* the byte strings that must not decode, with the error of each
DecodeErrorOf(bytes) ==
    IF bytes = <<>> THEN "Short"
    ELSE IF bytes = DeadBeef THEN "WrongPrefix"
    ELSE IF bytes = TruncPayload THEN "Rlp"
    ELSE IF bytes = BadChainPayload THEN "BadChainId"
    ELSE "none"

\* the bytes the derivation decodes for a successful pair, if any
DecodedBytes(tx, rc) ==
    IF ToInbox(tx) THEN Some(tx.input)
    ELSE IF MatchingLogs(rc) # {} THEN Some(FirstMatching(rc).data)
    ELSE None

Offending(tx, rc) ==
    /\ Successful(rc)
    /\ DecodedBytes(tx, rc) # None
    /\ DecodeErrorOf(DecodedBytes(tx, rc)[1]) # "none"

C13_LengthMismatchIsFatal ==
    (result.status # "none" /\ Len(call.txs) # Len(call.receipts))
        => result.status = "panic"

\* the data gas of the payload that transaction tx with receipt rc brought
PayloadGas(tx, rc) ==
    IF ToInbox(tx) /\ Valid(tx.input, FALSE) THEN CalldataGas(tx.input)
    ELSE 8 * Len(FirstMatching(rc).data)

\* C14: every deposit carries mint = min(gas * new rate, 2^128 - 1), with the
\* rate the same call returns, also on a period boundary; the known payload
\* sent as calldata (gas 576) at rate INITIAL_RATE mints 460_800_000_000_000_000.
C14_MintAtNewRateSaturating ==
    Returned =>
        \A i \in 1..Len(call.txs) : \A j \in DepositsOf(call.txs[i]) :
            /\ result.deposits[j].mint =
                   Some(MintFor(PayloadGas(call.txs[i], call.receipts[i]),
                                result.new_mint_rate))
            /\ Le(result.deposits[j].mint[1], U128_MAX)
            /\ (/\ result.new_mint_rate = INITIAL_RATE
                /\ ToInbox(call.txs[i])
                /\ call.txs[i].input = KnownPayload) =>
                    result.deposits[j].mint = Some(Nat3(<<460, 800, 0, 0, 0, 0>>))

\* a boundary call that changed the rate and minted at the new one
C14_Witness ==
    /\ Returned
    /\ PeriodBoundary(call.l2_block_number)
    /\ result.new_mint_rate # call.fct_mint_rate
    /\ result.new_mint_rate # Zero
    /\ Len(result.deposits) = 2
    /\ \A j \in 1..2 : \E i \in 1..2 :
          /\ j \in DepositsOf(call.txs[i])
          /\ result.deposits[j].mint # Some(Zero)
          /\ result.deposits[j].mint #
                 Some(MintFor(PayloadGas(call.txs[i], call.receipts[i]), call.fct_mint_rate))

\* what the last decode was given
Decoded == result.status = "decoded" \/ result.status = "failed"
WellFormed(f) == f.gas_limit = GasLimitItem
BadToLength(f) == Len(f.to) # 0 /\ Len(f.to) # 20
ChainMatches == call.fields.chain_id = BEBytes(call.l2_chain_id)

\* C15 as stated: a prefixed payload whose `to` has a length other than 0 or
\* 20 fails with an Rlp error, whatever its chain id and other fields are.
C15_BadToIsRlpError ==
    (Decoded /\ BadToLength(call.fields)) =>
        (result.status = "failed" /\ result.err = "Rlp")

\* C15: a prefixed payload whose `to` has a length other than 0 or 20 always
\* fails: with BadChainId when it is well-formed RLP for another chain, with
\* Rlp otherwise; a well-formed payload for this chain decodes to a contract
\* creation when `to` is empty and to a call to `to` when it has 20 bytes.
C15_ToLengthChecked ==
    Decoded =>
        /\ BadToLength(call.fields) =>
              /\ result.status = "failed"
              /\ result.err = IF WellFormed(call.fields) /\ ~ChainMatches
                              THEN "BadChainId" ELSE "Rlp"
        /\ (WellFormed(call.fields) /\ ChainMatches /\ Len(call.fields.to) = 0) =>
              (result.status = "decoded" /\ result.payload.to = None)
        /\ (WellFormed(call.fields) /\ ChainMatches /\ Len(call.fields.to) = 20) =>
              (result.status = "decoded" /\ result.payload.to = Some(call.fields.to))

\* a well-formed payload for this chain, rejected for its 21-byte `to` alone
C15_Witness ==
    /\ Decoded
    /\ call.bytes[1] = FACET_TX_TYPE
    /\ WellFormed(call.fields)
    /\ ChainMatches
    /\ Len(call.fields.to) = 21
    /\ result.status = "failed"
    /\ result.err = "Rlp"

\* C16: the data gas of a decoded payload is taken over the entire byte
\* string, prefix and mine_boost included: 4 per zero byte and 16 per non-zero
\* byte when it came as calldata, 8 per byte when it came in a log; the
\* calldata form of the gas is additive over concatenation.
C16_DataGasOverEntireBytes ==
    /\ result.status = "decoded" =>
          /\ result.payload.l1_data_gas_used =
                 IF call.contract_initiated THEN 8 * Len(call.bytes)
                 ELSE CalldataGas(call.bytes)
          /\ ~call.contract_initiated =>
                 result.payload.l1_data_gas_used =
                     16 + CalldataGas(Advance(call.bytes, 1))
    /\ result.status = "gas" =>
          /\ result.of_a = IF call.contract_initiated THEN 8 * Len(call.a)
                           ELSE CalldataGas(call.a)
          /\ ~call.contract_initiated => result.of_ab = result.of_a + result.of_b
          /\ (call.a = KnownPayload /\ call.b = <<>>) =>
                 result.of_ab = IF call.contract_initiated THEN 288 ELSE 576

\* a calldata payload with zero bytes in its mine_boost padding
C16_Witness ==
    /\ result.status = "decoded"
    /\ ~call.contract_initiated
    /\ call.fields.mine_boost = <<0, 0, 7>>
    /\ result.payload.l1_data_gas_used = 16 * (Len(call.bytes) - 2) + 4 * 2
    /\ result.payload.data = <<18, 52>>

\* a + b mod 2^160 on 20 big-endian bytes, by carrying from the last byte
\* upwards: the carry out of bytes i..20, dropped at the top
RECURSIVE CarryOut(_, _, _)
CarryOut(a, b, i) ==
    IF i > 20 THEN 0 ELSE (a[i] + b[i] + CarryOut(a, b, i + 1)) \div 256
AddMod2To160(a, b) ==
    SubSeq([i \in 1..20 |-> (a[i] + b[i] + CarryOut(a, b, i + 1)) % 256], 1, 20)
\* the address whose alias addr is: byte i lends iff a less significant byte
\* underflows and every byte in between is zero after the subtraction
Unalias(addr) ==
    LET d(i) == addr[i] - ALIAS_OFFSET[i]
        b(i) == IF \E j \in (i + 1)..20 :
                     /\ d(j) < 0
                     /\ \A k \in (i + 1)..(j - 1) : d(k) = 0
                THEN 1 ELSE 0
    IN  SubSeq([i \in 1..20 |-> (d(i) - b(i) + 256) % 256], 1, 20)

\* C17: alias_l1_to_l2(addr) is (addr + 0x1111000000000000000000000000000000001111)
\* mod 2^160 on the big-endian value of the address: it wraps around, no two
\* addresses share an alias and every address is the alias of one;
\* 0xdb8dc4ac38c094746529a14be18d99c18ecaedac has alias
\* 0xec9ec4ac38c094746529a14be18d99c18ecafebd.
C17_AliasIsAdditionMod2To160 ==
    result.status = "aliased" =>
        /\ Len(result.addr) = 20
        /\ \A i \in 1..20 : result.addr[i] \in 0..255
        /\ result.addr = AddMod2To160(call.addr, ALIAS_OFFSET)
        /\ \A other \in Addresses :
               alias_l1_to_l2(other) = result.addr => other = call.addr
        /\ alias_l1_to_l2(Unalias(call.addr)) = call.addr
        /\ AddMod2To160(Unalias(call.addr), ALIAS_OFFSET) = call.addr
        /\ call.addr = Emitter =>
               result.addr = <<236, 158, 196, 172, 56, 192, 148, 116, 101, 41, 161, 75,
                               225, 141, 153, 193, 142, 202, 254, 189>>

\* the alias of 0xff..ff wraps around to offset - 1
C17_Witness ==
    /\ result.status = "aliased"
    /\ call.addr = HighEmitter
    /\ result.addr = <<17, 17>> \o Rep(0, 16) \o <<17, 16>>
    /\ result.addr[1] < call.addr[1]

\* the deposit of tx came from its calldata
CalldataPath(tx) == ToInbox(tx) /\ Valid(tx.input, FALSE)

\* C18: the path decides the sender of a deposit. On the log path it is the
\* alias of the address of the first matching log: the emitter, not the
\* signer or the destination of the L1 transaction, and not the emitter
\* itself. On the calldata path it is the recovered signer as it is, not its
\* alias and not the alias of whoever emitted logs in the receipt.
C18_FromFollowsPath ==
    Returned =>
        \A i \in 1..Len(call.txs) : \A j \in DepositsOf(call.txs[i]) :
            LET tx   == call.txs[i]
                rc   == call.receipts[i]
                from == result.deposits[j].from
            IN  IF CalldataPath(tx)
                THEN /\ tx.signer # None => from = tx.signer[1]
                     /\ tx.signer # None => from # alias_l1_to_l2(tx.signer[1])
                     /\ \A k \in MatchingLogs(rc) :
                            from # alias_l1_to_l2(rc.logs[k].address)
                ELSE /\ MatchingLogs(rc) # {}
                     /\ from = alias_l1_to_l2(FirstMatching(rc).address)
                     /\ from # FirstMatching(rc).address
                     /\ tx.signer # None => from # tx.signer[1]
                     /\ tx.to # None => from # tx.to[1]

\* one call with a deposit of each path: the first from the signer of a
\* transaction whose receipt has inbox logs, the second from the alias of the
\* emitter of a log of a transaction to another contract
C18_Witness ==
    /\ Returned
    /\ Len(call.txs) = 2
    /\ Len(result.deposits) = 2
    /\ CalldataPath(call.txs[1])
    /\ MatchingLogs(call.receipts[1]) # {}
    /\ result.deposits[1].from = Signer
    /\ ~ToInbox(call.txs[2])
    /\ call.txs[2].to = Some(DummyContract)
    /\ FirstMatching(call.receipts[2]).address = HighEmitter
    /\ result.deposits[2].from = alias_l1_to_l2(HighEmitter)

\* the call of the last step made again, in a build with or without the
\* overflow checks and debug assertions
Again(build) ==
    derive_facet_deposits(build, call.txs, call.receipts, L2_CHAIN_ID, call.l2_block_number,
                          call.fct_mint_rate, call.fct_mint_period_l1_data_gas)

C20_UnknownEnvelopeContributesNothing ==
    Returned =>
        \A i \in 1..Len(call.txs) :
            call.txs[i].variant \notin ReadVariants =>
                /\ DepositsOf(call.txs[i]) = {}
                /\ result = derive_facet_deposits(debug_build, Without(call.txs, i),
                                Without(call.receipts, i), L2_CHAIN_ID, call.l2_block_number,
                                call.fct_mint_rate, call.fct_mint_period_l1_data_gas)

\* C21: the source_hash of a deposit is the hash of the L1 transaction it
\* comes from, and no two deposits of one call carry the same source_hash.
C21_SourceHashIdentifiesDeposit ==
    Returned =>
        /\ \A j \in 1..Len(result.deposits) :
              \E i \in 1..Len(call.txs) : result.deposits[j].source_hash = call.txs[i].hash
        /\ \A j1, j2 \in 1..Len(result.deposits) :
              j1 # j2 => result.deposits[j1].source_hash # result.deposits[j2].source_hash

\* the current block is the first block of the chain at or after interop_time
ActivationBlock ==
    /\ call.interop_time # None
    /\ call.timestamp >= call.interop_time[1]
    /\ \/ call.timestamp = call.genesis_time
       \/ call.timestamp - call.block_time < call.interop_time[1]

\* C22: interop is reported for a block only when it is configured, the block
\* is at or after interop_time and it is not the activation block, the first
\* block at or after interop_time; never for a chain without configuration.
C22_PostInteropSkipsActivationBlock ==
    (result.status = "answered" /\ result.post) =>
        /\ result.chain_id = ConfiguredChain
        /\ call.interop_time # None
        /\ call.timestamp >= call.interop_time[1]
        /\ ~ActivationBlock

\* C23: in a run that starts with INITIAL_RATE on a period boundary the rate
\* of every state lies in [MIN_RATE, MAX_RATE], also at blocks whose
\* halving-adjusted target is 0.
C23_RateStaysInBounds ==
    /\ Le(MIN_RATE, fct_mint_rate)
    /\ Le(fct_mint_rate, MAX_RATE)

\* C24: compute_new_rate is total: on every boundary block and for every
\* previous rate the clamp bounds satisfy lower <= upper, the product
\* prev_rate * MAX_ADJUSTMENT_FACTOR fits 128 bits, and the call returns.
C24_ComputeNewRateTotal ==
    (result.status # "none" /\ PeriodBoundary(call.l2_block_number)) =>
        /\ Le(WindowLower(call.fct_mint_rate), WindowUpper(call.fct_mint_rate))
        /\ Lt(Mul(call.fct_mint_rate, MAX_ADJUSTMENT_FACTOR), TwoTo128)
        /\ Returned

C26_FailedRecoveryGivesZeroSender ==
    result.status # "none" =>
        \A i \in 1..Len(call.txs) :
            LET tx == call.txs[i]
                rc == call.receipts[i]
            IN  (/\ Successful(rc)
                 /\ ToInbox(tx)
                 /\ Valid(tx.input, FALSE)
                 /\ tx.signer = None) =>
                    /\ Returned
                    /\ \E j \in 1..Len(result.deposits) :
                        /\ DepositsOf(tx) = {j}
                        /\ result.deposits[j].from = ADDRESS_ZERO
                        /\ result.deposits[j].input = DataOf(tx.input)
                        /\ result.deposits[j].mint =
                               Some(MintFor(CalldataGas(tx.input), result.new_mint_rate))
                    /\ Bind(derive_facet_deposits(debug_build, Without(call.txs, i),
                                Without(call.receipts, i), L2_CHAIN_ID,
                                call.l2_block_number, call.fct_mint_rate,
                                call.fct_mint_period_l1_data_gas), LAMBDA r :
                            /\ r.status = "ok"
                            /\ result.new_cumulative_l1_data_gas =
                                   Add(r.new_cumulative_l1_data_gas,
                                       OfInt(CalldataGas(tx.input))))

\* a block whose second transaction has no recoverable signer, after a
\* transaction that has one: both give a deposit
C26_Witness ==
    /\ Returned
    /\ Len(call.txs) = 2
    /\ Len(result.deposits) = 2
    /\ call.txs[1].signer # None
    /\ call.txs[2].signer = None
    /\ Successful(call.receipts[2])
    /\ ToInbox(call.txs[2])
    /\ Valid(call.txs[2].input, FALSE)
    /\ MatchingLogs(call.receipts[2]) # {}
    /\ result.deposits[1].from = Signer
    /\ result.deposits[2].from = ADDRESS_ZERO

\* the attempts of the loop so far, and the error types among outcomes
Attempts == Len(call.outcomes)
NetworkFailure(o) == o = "Network" \/ o = "RateLimit"

\* C27: in validate_derivation and validate_execution an error classified as
\* Validation is not retried: the loop ends with the first such failure, and
\* the returned TestResult carries the retry count reached before it.
C27_ValidationNotRetried ==
    \A k \in 1..Attempts :
        call.outcomes[k] = "Validation" =>
            /\ k = Attempts
            /\ result.status = "returned"
            /\ result.returned[1].success = FALSE
            /\ result.returned[1].error_type = Some("Validation")
            /\ result.returned[1].retries = k - 1

\* the loop returned the result of the open circuit breaker
BreakerReturned ==
    /\ result.status = "returned"
    /\ result.returned[1].error = Some(CircuitBreakerOpenError)

RetryCap(n) ==
    LET caps == {call.max_retries} \cup
                {max_retries(call.outcomes[k]) :
                    k \in {j \in 1..n : call.outcomes[j] # "Ok"}}
    IN  CHOOSE c \in caps : \A d \in caps : c <= d

\* what C29 says apart from the bound on the attempts
RetriesAndSuccess ==
    /\ result.retries <= call.max_retries
    /\ result.status = "returned" =>
          /\ result.returned[1].retries <= call.max_retries
          /\ result.returned[1].success =
                (Attempts > 0 /\ call.outcomes[Attempts] = "Ok")

\* C29 as stated: for every sequence of attempt outcomes the loop ends after
\* at most min(max_retries, smallest ErrorType::max_retries among the errors
\* seen) + 1 attempts, the returned retries never exceed max_retries, and
\* success = true is returned if and only if the last attempt succeeded.
C29_AttemptsBoundedByAllErrors ==
    /\ Attempts <= RetryCap(Attempts) + 1
    /\ RetriesAndSuccess

\* C29, amended: the bound is over the errors seen before the last attempt;
\* the error of the last attempt lowers the cap only after that attempt was
\* made.
C29_AttemptsBoundedByEarlierErrors ==
    /\ Attempts <= RetryCap(Attempts - 1) + 1
    /\ result.status = "looping" => Attempts <= RetryCap(Attempts)
    /\ RetriesAndSuccess

\* three network failures were retried, then an error with max_retries 1 ended
\* the loop at the fourth attempt
C29_Witness ==
    /\ result.status = "returned"
    /\ Attempts = 4
    /\ call.outcomes[4] = "Validation"
    /\ result.returned[1].retries = 3
    /\ RetryCap(Attempts) = 1

\* C30: with several tasks recording results concurrently, every pair
\* (completed, failed) get_stats can read satisfies failed <= completed <=
\* total, so completed - failed never underflows.
C30_StatsPairConsistent ==
    \A w \in Workers :
        result.stats[w] # None =>
            /\ result.stats[w][1].failed <= result.stats[w][1].completed
            /\ result.stats[w][1].completed <= result.stats[w][1].total

====
